---------------------------- MODULE Spec2Model ----------------------------
(***************************************************************************)
(* A model of the evaluation core of bridgekat/infp:                       *)
(* src/src/eval/evaluator.cpp (resolver, macro expander, evaluator and the *)
(* primitive registry).                                                    *)
(*                                                                         *)
(* Trees live in an arena (`pool`).  A Cons is a pointer into the arena,   *)
(* so that the in-place writes of `set` and `letrec` are seen by every     *)
(* tree that shares the cell; the other variants are immutable and are     *)
(* modelled by value.                                                      *)
(***************************************************************************)
EXTENDS Integers, Sequences, FiniteSets, TLC

VARIABLES
  pool,          \* Core::Allocator<Tree>: the Cons cells allocated so far
  globalEnv,     \* Tree* globalEnv
  patterns,      \* Tree* patterns (installed by setSyntax)
  rules,         \* Tree* rules
  symbolNames,   \* vector<string>
  nameSymbols,   \* map<string, Symbol>, as a sequence of names (id = index + 1)
  patternNames,  \* vector<string>
  ruleNames,     \* vector<string>
  macros,        \* vector<Closure>
  nameMacros,    \* map<string, size_t>, as a set of <<name, index>>
  argOrder,      \* the build's order of evaluating function arguments
  nStatements,   \* statements evaluated so far
  last,          \* what the last evaluated statement did
  probe,         \* the pure-function harness: inputs and last results
  lexer,         \* Parsing::NFALexer: the patterns added since the last clearPatterns
  parser,        \* Parsing::EarleyParser: patterns, rules, and the sentence and forest
  resolving      \* the resolve under way: its control, activations and output

evaluatorVars == <<pool, globalEnv, patterns, rules, symbolNames, nameSymbols,
                   patternNames, ruleNames, macros, nameMacros>>
vars == <<pool, globalEnv, patterns, rules, symbolNames, nameSymbols,
          patternNames, ruleNames, macros, nameMacros, argOrder,
          nStatements, last, probe, lexer, parser, resolving>>

---------------------------------------------------------------------------
(* Tree: the tagged union.                                                 *)

Nil == [t |-> "Nil"]
Unit == [t |-> "Unit"]
Symbol(s) == [t |-> "Symbol", val |-> s]
String(s) == [t |-> "String", val |-> s]
Nat64(n) == [t |-> "Nat64", n |-> n]
Bool(b) == [t |-> "Bool", b |-> b]
Prim(id) == [t |-> "Prim", id |-> id]
Closure(env, formal, es) == [t |-> "Closure", env |-> env, formal |-> formal, es |-> es]
ConsAt(a) == [t |-> "Cons", a |-> a]

\* The null Tree*: lookup's "not found", Result's absent env.
nullptr == [t |-> "nullptr"]

holds(T, e) == e.t = T

\* get<Cons>(e): the cell a Cons points to.
getCons(p, e) == p[e.a]

\* pool.emplaceBack(head, tail): the arena with one more cell, and the new Cons.
emplaceBack(p, h, tl) ==
  [pool |-> Append(p, [head |-> h, tail |-> tl]), v |-> ConsAt(Len(p) + 1)]

---------------------------------------------------------------------------
(* Tree literals of the model's inputs, and their allocation in the arena. *)
(* A literal is an atom, LList(<<...>>) for a proper list, or LCons(h, t). *)

LList(xs) == [t |-> "LList", xs |-> xs]
LCons(h, tl) == [t |-> "LCons", head |-> h, tail |-> tl]

RECURSIVE dotted(_, _)
\* The literal of the list of the elements xs that ends in z: (x1 x2 . z).
dotted(xs, z) == IF xs = <<>> THEN z ELSE LCons(Head(xs), dotted(Tail(xs), z))

\* F(x), with x evaluated first: the sequencing of two computations.
andThen(x, F(_)) == CHOOSE r \in {F(y) : y \in {x}} : TRUE

---------------------------------------------------------------------------
(* Statements.  The parser is a black box; what resolve() returns for the  *)
(* text of an S-expression under the default syntax is the tree of rule    *)
(* and pattern names below.  An S-expression is written as a literal, with *)
(* LDot(<<a, b>>, c) for (a b . c), LQuote(x) and LUnquote(x).             *)

LDot(xs, z) == [t |-> "LDot", xs |-> xs, z |-> z]
LQuote(x) == [t |-> "LQuote", x |-> x]
LUnquote(x) == [t |-> "LUnquote", x |-> x]

\* In a literal: the parse of the S-expression x, and of the list xs followed
\* by nothing (z = nullptr) or by a period and z.
parsed(x) == [t |-> "parsed", x |-> x]
parsedList(xs, z) == [t |-> "parsedList", xs |-> xs, z |-> z]

\* The grave accent of the quote pattern, which a TLA+ string cannot hold (nor
\* can it hold the vertical tab of the blank pattern): what a lexeme holds
\* decides nothing here.
grave == "<grave accent>"

\* The token leaf resolve builds: (pattern-name lexeme).
token(name, lexeme) == LList(<< Symbol(name), String(lexeme) >>)

\* The decimal numerals the model's inputs use, numeral n at index n + 1.
numerals == << "0", "1", "2", "3", "4", "5", "6", "7", "8", "9" >>

\* The parse of a `tree` of the default rules, as resolve materializes it.
parseTree(x) ==
  CASE x.t = "Symbol" -> token("symbol'", x.val)
    [] x.t = "Nat64"  -> token("nat64'", numerals[x.n + 1])
    [] x.t = "LList"  ->
         LList(<< Symbol("tree'"), token("_", "("), parsedList(x.xs, nullptr), token("_", ")") >>)
    [] x.t = "LDot"   ->
         LList(<< Symbol("tree'"), token("_", "("), parsedList(x.xs, x.z), token("_", ")") >>)
    [] x.t = "LQuote" -> LList(<< Symbol("quote'"), token("_", grave), parsed(x.x) >>)
    [] x.t = "LUnquote" -> LList(<< Symbol("unquote'"), token("_", ","), parsed(x.x) >>)

\* The parse of a `list`.
parseList(xs, z) ==
  IF xs = <<>> THEN LList(<< Symbol("nil'") >>)
  ELSE IF Len(xs) = 1 /\ z # nullptr
  THEN LList(<< Symbol("period'"), parsed(xs[1]), token("_", "."), parsed(z) >>)
  ELSE LList(<< Symbol("cons'"), parsed(xs[1]), parsedList(Tail(xs), z) >>)

\* The parse of a statement: the start rule id' over a tree.
parseStatement(x) == LList(<< Symbol("id'"), parsed(x) >>)

RECURSIVE ruleNamesOf(_)
\* The rules the parse of the S-expression x uses.
ruleNamesOf(x) ==
  CASE x.t = "LList" ->
         {"tree'", "nil'"} \cup (IF x.xs = <<>> THEN {} ELSE {"cons'"})
           \cup UNION {ruleNamesOf(x.xs[i]) : i \in DOMAIN x.xs}
    [] x.t = "LDot" ->
         {"tree'", "period'"} \cup (IF Len(x.xs) = 1 THEN {} ELSE {"cons'"})
           \cup UNION {ruleNamesOf(x.xs[i]) : i \in DOMAIN x.xs} \cup ruleNamesOf(x.z)
    [] x.t = "LQuote" -> {"quote'"} \cup ruleNamesOf(x.x)
    [] x.t = "LUnquote" -> {"unquote'"} \cup ruleNamesOf(x.x)
    [] OTHER -> {}

RECURSIVE patternNamesOf(_)
\* The patterns the parse of the S-expression x uses.
patternNamesOf(x) ==
  CASE x.t = "Symbol" -> {"symbol'"}
    [] x.t = "Nat64" -> {"nat64'"}
    [] x.t = "LList" -> {"_"} \cup UNION {patternNamesOf(x.xs[i]) : i \in DOMAIN x.xs}
    [] x.t = "LDot" ->
         {"_"} \cup UNION {patternNamesOf(x.xs[i]) : i \in DOMAIN x.xs} \cup patternNamesOf(x.z)
    [] x.t \in {"LQuote", "LUnquote"} -> {"_"} \cup patternNamesOf(x.x)

---------------------------------------------------------------------------
(* The allocation of a literal.                                            *)

\* The bound on the steps of one run of a machine below: 2^FuelBits.
FuelBits == 13

\* The bound on the steps of the allocation of one literal: 2^AllocBits.
AllocBits == 10

\* One step of the allocation of a literal: `todo` is the stack of what is left
\* to build, `vals` the stack of the trees built.  A list of n elements is
\* consed from its last element to its first, as makeList does.
allocStep(a) ==
  LET it   == a.todo[Len(a.todo)]
      rest == SubSeq(a.todo, 1, Len(a.todo) - 1)
      n    == IF it.t = "LList" THEN Len(it.xs) ELSE it.n
      k    == Len(a.vals) - n
      base == Len(a.pool)
  IN  CASE it.t = "LList" ->
             [a EXCEPT !.todo = rest \o << [t |-> "makeList", n |-> n] >>
                                     \o [i \in 1..n |-> it.xs[n + 1 - i]]]
        [] it.t = "parsed" -> [a EXCEPT !.todo = rest \o << parseTree(it.x) >>]
        [] it.t = "parsedList" -> [a EXCEPT !.todo = rest \o << parseList(it.xs, it.z) >>]
        [] it.t = "LCons" ->
             [a EXCEPT !.todo = rest \o << [t |-> "cons", n |-> 2], it.tail, it.head >>]
        [] it.t = "makeList" ->
             [pool |-> a.pool \o [i \in 1..n |->
                                    [head |-> a.vals[k + n + 1 - i],
                                     tail |-> IF i = 1 THEN Nil ELSE ConsAt(base + i - 1)]],
              todo |-> rest,
              vals |-> Append(SubSeq(a.vals, 1, k), IF n = 0 THEN Nil ELSE ConsAt(base + n))]
        [] it.t = "cons" ->
             [pool |-> Append(a.pool, [head |-> a.vals[k + 1], tail |-> a.vals[k + 2]]),
              todo |-> rest,
              vals |-> Append(SubSeq(a.vals, 1, k), ConsAt(base + 1))]
        [] OTHER -> [a EXCEPT !.todo = rest, !.vals = Append(@, it)]

RECURSIVE allocRun(_, _)
\* 2^k steps of the allocation, or as many as it takes: the set of the one
\* state it ends in.
allocRun(k, a) ==
  CASE a.todo = <<>> -> {a}
    [] k = 0 -> {allocStep(a)}
    [] OTHER -> UNION {allocRun(k - 1, b) : b \in allocRun(k - 1, a)}

\* The tree of the literal `lit`, allocated in the arena p: [pool, v]; v is
\* nullptr when the allocation is out of steps.
alloc(p, lit) ==
  LET a == CHOOSE b \in allocRun(AllocBits, [pool |-> p, todo |-> << lit >>, vals |-> <<>>]) : TRUE
  IN  [pool |-> a.pool, v |-> IF a.todo = <<>> THEN a.vals[1] ELSE nullptr]

RECURSIVE reify(_, _, _)
\* The literal a tree denotes (its structure, without its addresses), cut at
\* depth d: what operator== and toString observe.
reify(p, e, d) ==
  IF d = 0 THEN [t |-> "..."]
  ELSE CASE e.t = "Cons" ->
              LCons(reify(p, getCons(p, e).head, d - 1), reify(p, getCons(p, e).tail, d - 1))
         [] e.t = "Closure" ->
              [t |-> "Closure", env |-> reify(p, e.env, d - 1),
               formal |-> reify(p, e.formal, d - 1), es |-> reify(p, e.es, d - 1)]
         [] OTHER -> e


---------------------------------------------------------------------------
(* Exceptions.  A result is [k, v, ...]: k = "ok" with the value v, or the *)
(* kind of the exception that is unwinding with v = [msg, at, e].          *)

PartialEvalError(msg, at) == [msg |-> msg, at |-> at, e |-> nullptr]
EvalError(msg, at, e) == [msg |-> msg, at |-> at, e |-> e]

\* Tree::operator==: structural and deep.
RECURSIVE treeEq(_, _, _)
treeEq(p, a, b) ==
  IF a.t # b.t THEN FALSE
  ELSE CASE a.t = "Cons" ->
              /\ treeEq(p, getCons(p, a).head, getCons(p, b).head)
              /\ treeEq(p, getCons(p, a).tail, getCons(p, b).tail)
         [] a.t = "Closure" ->
              /\ treeEq(p, a.env, b.env)
              /\ treeEq(p, a.formal, b.formal)
              /\ treeEq(p, a.es, b.es)
         [] OTHER -> a = b

---------------------------------------------------------------------------
(* Environments.                                                           *)

RECURSIVE lookupSkip(_, _, _)
\* A lookup that passes over a binding whose value is Unit and goes on.
lookupSkip(p, env, s) ==
  IF ~holds("Cons", env) THEN nullptr
  ELSE LET it   == getCons(p, env)
           curr == it.head
       IN  IF ~holds("Cons", curr) THEN lookupSkip(p, it.tail, s)
           ELSE LET lhs == getCons(p, curr).head
                    t   == getCons(p, curr).tail
                IN  IF ~holds("Cons", t) THEN lookupSkip(p, it.tail, s)
                    ELSE LET rhs == getCons(p, t).head
                         IN  IF holds("Symbol", lhs) /\ lhs.val = s /\ ~holds("Unit", rhs)
                             THEN rhs
                             ELSE lookupSkip(p, it.tail, s)

\* An extend that puts the new binding behind the bindings of env.
extendBehind(p, env, s, e) ==
  IF ~holds("Cons", env)
  THEN LET cell  == emplaceBack(p, e, Nil)
           entry == emplaceBack(cell.pool, Symbol(s), cell.v)
       IN  emplaceBack(entry.pool, entry.v, env)
  ELSE LET cell  == emplaceBack(p, e, Nil)
           entry == emplaceBack(cell.pool, Symbol(s), cell.v)
           back  == emplaceBack(entry.pool, entry.v, getCons(p, env).tail)
       IN  [pool |-> [back.pool EXCEPT ![env.a].tail = back.v], v |-> env]

\* Evaluator::extend: cons(cons(sym(s), cons(e, nil)), env).
extend(p, env, s, e) ==
  LET cell  == emplaceBack(p, e, Nil)
      entry == emplaceBack(cell.pool, Symbol(s), cell.v)
  IN  emplaceBack(entry.pool, entry.v, env)

RECURSIVE lookup(_, _, _)
\* Evaluator::lookup: the first entry whose name is s decides; an entry that is
\* not a list of at least two elements is skipped.
lookup(p, env, s) ==
  IF ~holds("Cons", env) THEN nullptr
  ELSE LET it   == getCons(p, env)
           curr == it.head
       IN  IF ~holds("Cons", curr) THEN lookup(p, it.tail, s)
           ELSE LET lhs == getCons(p, curr).head
                    t   == getCons(p, curr).tail
                IN  IF ~holds("Cons", t) THEN lookup(p, it.tail, s)
                    ELSE LET rhs == getCons(p, t).head
                         IN  IF holds("Symbol", lhs) /\ lhs.val = s
                             THEN (IF holds("Unit", rhs) THEN nullptr ELSE rhs)
                             ELSE lookup(p, it.tail, s)

---------------------------------------------------------------------------
(* Evaluator::match.  The result is [pool, k, v, env]: v is the returned   *)
(* bool, env the Tree*& argument as the call leaves it (also when the      *)
(* match fails or throws).                                                 *)

RECURSIVE match(_, _, _, _, _)
match(p, e, pat, env, quoteMode) ==
  IF holds("Symbol", pat) /\ ~quoteMode
  THEN IF pat.val # "_"
       THEN LET x == extend(p, env, pat.val, e)
            IN  [pool |-> x.pool, k |-> "ok", v |-> TRUE, env |-> x.v]
       ELSE [pool |-> p, k |-> "ok", v |-> TRUE, env |-> env]
  ELSE IF holds("Cons", pat)
  THEN LET h == getCons(p, pat).head
           t == getCons(p, pat).tail
           special == IF ~holds("Symbol", h) THEN "none"
                      ELSE IF h.val = "quote" /\ ~quoteMode THEN "quote"
                      ELSE IF h.val = "unquote" /\ quoteMode THEN "unquote"
                      ELSE IF h.val = "..." THEN "..."
                      ELSE "none"
       IN  CASE special \in {"quote", "unquote"} ->
                  IF ~holds("Cons", t)
                  THEN [pool |-> p, k |-> "PartialEvalError",
                        v |-> PartialEvalError("type mismatch", t), env |-> env]
                  ELSE match(p, e, getCons(p, t).head, env, special = "quote")
             [] special = "..." ->
                  [pool |-> p, k |-> "ok", v |-> holds("Nil", e) \/ holds("Cons", e), env |-> env]
             [] OTHER ->
                  IF ~holds("Cons", e)
                  THEN [pool |-> p, k |-> "ok", v |-> FALSE, env |-> env]
                  ELSE LET mh == match(p, getCons(p, e).head, h, env, quoteMode)
                       IN  IF mh.k # "ok" \/ ~mh.v THEN mh
                           ELSE match(mh.pool, getCons(p, e).tail, t, mh.env, quoteMode)
  ELSE [pool |-> p, k |-> "ok", v |-> treeEq(p, e, pat), env |-> env]


---------------------------------------------------------------------------
(* The evaluator's state as the interpreter threads it: the member         *)
(* variables, and what the model observes of one statement (ran: the       *)
(* primitives called, maxDepth: the deepest nesting of eval invocations    *)
(* while the expanded statement is evaluated, calls: the number of closure *)
(* applications, apps: for each of them the caller's env, the closure, the *)
(* evaluated arguments, whether they matched the formal, and the env the   *)
(* match left for the body, primCalls: for each call of a primitive its    *)
(* name, the argument list as written and the one it was given).           *)
(* Results are [m, k, v].  A primitive's v is its Result {env, e}.         *)

Ok(m, v) == [m |-> m, k |-> "ok", v |-> v]
Throw(m, k, err) == [m |-> m, k |-> k, v |-> err]
Value(e) == [env |-> nullptr, e |-> e]
TailCall(env, e) == [env |-> env, e |-> e]

head(m, e) == m.pool[e.a].head
tail(m, e) == m.pool[e.a].tail
cons(m, h, tl) ==
  LET c == emplaceBack(m.pool, h, tl) IN Ok([m EXCEPT !.pool = c.pool], c.v)

\* expect<T>(e) on a tree of another variant.
expect(m, at) == Throw(m, "PartialEvalError", PartialEvalError("type mismatch", at))

\* The registry the constructor fills, in the order of its addPrimitive calls.
primNames ==
  << "lambda", "cond", "quote", "unquote", "match", "let", "letrec", "define",
     "define_macro", "set", "begin",
     "eval", "env", "get_syntax", "set_syntax", "get_global_env", "set_global_env",
     "nil", "cons", "list", "id",
     "string_symbol", "string_nat64", "string_escape", "string_unescape",
     "string_length", "string_char", "char_string", "string_concat",
     "string_substr", "string_eq",
     "minus", "add", "sub", "mul", "div", "mod", "le", "lt", "ge", "gt", "eq", "neq",
     "not", "and", "or", "implies", "iff",
     "print", "display", "debug_save_file" >>

\* The primitives registered with evalParams = false.
formNames ==
  { "lambda", "cond", "quote", "unquote", "match", "let", "letrec", "define",
    "define_macro", "set", "begin" }

\* A registry in which eval, get_syntax, set_syntax, get_global_env and
\* set_global_env are registered with evalParams = false as well.
primsAsForms ==
  [i \in 1..Len(primNames) |->
     [name |-> primNames[i],
      evalParams |-> primNames[i] \notin formNames \cup
                       {"eval", "get_syntax", "set_syntax", "get_global_env",
                        "set_global_env"}]]

\* prims[id]: (evalParams, f); f is applyPrim's case for the name.
prims ==
  [i \in 1..Len(primNames) |->
     [name |-> primNames[i], evalParams |-> primNames[i] \notin formNames]]

\* namePrims.find(s): the id, or -1 for namePrims.end().
namePrims(s) ==
  IF \E i \in 1..Len(primNames) : primNames[i] = s
  THEN (CHOOSE i \in 1..Len(primNames) : primNames[i] = s) - 1
  ELSE -1

---------------------------------------------------------------------------
(* The primitives that make no call to eval: each takes (m, env, e), e the *)
(* argument list, and returns [m, k, v].                                   *)

primLambda(m, env, e) ==
  IF ~holds("Cons", e) THEN expect(m, e)
  ELSE Ok(m, Value(Closure(env, head(m, e), tail(m, e))))

RECURSIVE matchClausesThreading(_, _, _, _, _)
\* A loop over the clauses that hands the next clause the environment the
\* failed match of this one left.
matchClausesThreading(m, env, target, clauses, it) ==
  IF ~holds("Cons", it)
  THEN Throw(m, "PartialEvalError", PartialEvalError("nonexhaustive patterns", clauses))
  ELSE LET clause == head(m, it)
       IN  IF ~holds("Cons", clause) THEN expect(m, clause)
           ELSE LET pat == head(m, clause)
                    u   == tail(m, clause)
                    mt  == match(m.pool, target, pat, env, FALSE)
                    m1  == [m EXCEPT !.pool = mt.pool]
                IN  IF mt.k # "ok" THEN Throw(m1, mt.k, mt.v)
                    ELSE IF mt.v
                    THEN (IF ~holds("Cons", u) THEN expect(m1, u)
                          ELSE Ok(m1, TailCall(mt.env, head(m1, u))))
                    ELSE matchClausesThreading(m1, mt.env, target, clauses, tail(m, it))

RECURSIVE matchClauses(_, _, _, _, _)
\* The loop of the match form over the clauses from `it` on.
matchClauses(m, env, target, clauses, it) ==
  IF ~holds("Cons", it)
  THEN Throw(m, "PartialEvalError", PartialEvalError("nonexhaustive patterns", clauses))
  ELSE LET clause == head(m, it)
       IN  IF ~holds("Cons", clause) THEN expect(m, clause)
           ELSE LET pat == head(m, clause)
                    u   == tail(m, clause)
                    mt  == match(m.pool, target, pat, env, FALSE)
                    m1  == [m EXCEPT !.pool = mt.pool]
                IN  IF mt.k # "ok" THEN Throw(m1, mt.k, mt.v)
                    ELSE IF mt.v
                    THEN (IF ~holds("Cons", u) THEN expect(m1, u)
                          ELSE Ok(m1, TailCall(mt.env, head(m1, u))))
                    ELSE matchClauses(m1, env, target, clauses, tail(m, it))

RECURSIVE letrecBind(_, _, _, _)
\* The first loop of letrec: v is [env, refs], refs the value cells in order.
letrecBind(m, env, it, refs) ==
  IF ~holds("Cons", it) THEN Ok(m, [env |-> env, refs |-> refs])
  ELSE LET def == head(m, it)
       IN  IF ~holds("Cons", def) THEN expect(m, def)
           ELSE IF ~holds("Symbol", head(m, def)) THEN expect(m, head(m, def))
           ELSE LET x  == extend(m.pool, env, head(m, def).val, Unit)
                    m1 == [m EXCEPT !.pool = x.pool]
                    c  == tail(m1, head(m1, x.v))
                IN  letrecBind(m1, x.v, tail(m, it), Append(refs, c.a))

\* Evaluator::addMacro(name, closure): the closure appended, the name mapped to
\* its index.
addMacro(m, name, cl) ==
  [m EXCEPT !.macros = Append(@, cl),
            !.nameMacros = {x \in @ : x[1] # name} \cup {<<name, Len(m.macros)>>}]

\* nameMacros.find(name): the index, or -1 for nameMacros.end().
findMacro(m, name) ==
  IF \E x \in m.nameMacros : x[1] = name
  THEN (CHOOSE x \in m.nameMacros : x[1] = name)[2]
  ELSE -1

RECURSIVE setCell(_, _, _, _, _)
\* The loop of set over the spine of env from `it` on.  get<Cons> on an entry
\* of one element terminates the process (std::get in a noexcept function).
setCell(m, it, s, val, lhs) ==
  IF ~holds("Cons", it)
  THEN Throw(m, "PartialEvalError", PartialEvalError("unbound symbol", lhs))
  ELSE LET curr == head(m, it)
       IN  IF ~holds("Cons", curr) THEN setCell(m, tail(m, it), s, val, lhs)
           ELSE IF ~holds("Cons", tail(m, curr)) THEN Throw(m, "terminate", curr)
           ELSE IF holds("Symbol", head(m, curr)) /\ head(m, curr).val = s
           THEN Ok([m EXCEPT !.pool[tail(m, curr).a].head = val], Value(Unit))
           ELSE setCell(m, tail(m, it), s, val, lhs)

---------------------------------------------------------------------------
(* Primitive procedures: e is the evaluated argument list.                 *)

primEval(m, env, e) ==
  IF ~holds("Cons", e) THEN expect(m, e)
  ELSE LET h == head(m, e)
           t == tail(m, e)
       IN  Ok(m, TailCall(IF holds("Cons", t) THEN head(m, t) ELSE env, h))

primEnv(m, env, e) == Ok(m, Value(env))

primGetSyntax(m, env, e) ==
  LET inner == cons(m, m.rules, Nil)
      outer == cons(inner.m, m.patterns, inner.v)
  IN  Ok(outer.m, Value(outer.v))

primGetGlobalEnv(m, env, e) == Ok(m, Value(m.globalEnv))

primSetGlobalEnv(m, env, e) ==
  IF ~holds("Cons", e) THEN expect(m, e)
  ELSE Ok([m EXCEPT !.globalEnv = head(m, e)], Value(Unit))

primNil(m, env, e) == Ok(m, Value(Nil))

primCons(m, env, e) ==
  IF ~holds("Cons", e) THEN expect(m, e)
  ELSE IF ~holds("Cons", tail(m, e)) THEN expect(m, tail(m, e))
  ELSE LET c == cons(m, head(m, e), head(m, tail(m, e)))
       IN  Ok(c.m, Value(c.v))

primList(m, env, e) == Ok(m, Value(e))

primId(m, env, e) ==
  IF ~holds("Cons", e) THEN expect(m, e) ELSE Ok(m, Value(head(m, e)))

primStringSymbol(m, env, e) ==
  IF ~holds("Cons", e) THEN expect(m, e)
  ELSE IF ~holds("String", head(m, e)) THEN expect(m, head(m, e))
  ELSE Ok(m, Value(Symbol(head(m, e).val)))

\* std::stoull(s, nullptr, 0) on the numerals above; another string is beyond
\* the model.
primStringNat64(m, env, e) ==
  IF ~holds("Cons", e) THEN expect(m, e)
  ELSE IF ~holds("String", head(m, e)) THEN expect(m, head(m, e))
  ELSE IF \E i \in 1..Len(numerals) : numerals[i] = head(m, e).val
  THEN Ok(m, Value(Nat64((CHOOSE i \in 1..Len(numerals) : numerals[i] = head(m, e).val) - 1)))
  ELSE Throw(m, "unmodelled", "string_nat64")

primDisplay(m, env, e) ==
  IF ~holds("Cons", e) THEN expect(m, e)
  ELSE IF ~holds("String", head(m, e)) THEN expect(m, head(m, e))
  ELSE Ok(m, Value(Unit))

\* The Nat64 values the model computes with: a result beyond NatLimit (and a
\* difference below 0, which wraps to a value beyond it) is beyond the model.
NatLimit == 1000

\* The binary(Nat64, ...) and binpred(Nat64, ...) primitives.
primNat64(name, m, env, e) ==
  IF ~holds("Cons", e) THEN expect(m, e)
  ELSE IF ~holds("Cons", tail(m, e)) THEN expect(m, tail(m, e))
  ELSE LET lhs == head(m, e)
           rhs == head(m, tail(m, e))
       IN  IF ~holds("Nat64", lhs) THEN expect(m, lhs)
           ELSE IF ~holds("Nat64", rhs) THEN expect(m, rhs)
           ELSE LET a == lhs.n
                    b == rhs.n
                    num == CASE name = "add" -> a + b
                             [] name = "sub" -> a - b
                             [] name = "mul" -> a * b
                             [] OTHER -> 0
                IN  CASE name \in {"add", "sub", "mul"} ->
                           IF num \in 0..NatLimit THEN Ok(m, Value(Nat64(num)))
                           ELSE Throw(m, "unmodelled", name)
                      [] name = "le"  -> Ok(m, Value(Bool(a <= b)))
                      [] name = "lt"  -> Ok(m, Value(Bool(a < b)))
                      [] name = "ge"  -> Ok(m, Value(Bool(a >= b)))
                      [] name = "gt"  -> Ok(m, Value(Bool(a > b)))
                      [] name = "eq"  -> Ok(m, Value(Bool(a = b)))
                      [] name = "neq" -> Ok(m, Value(Bool(a # b)))

\* unary(Bool, "not", !).
primNot(m, env, e) ==
  IF ~holds("Cons", e) THEN expect(m, e)
  ELSE IF ~holds("Bool", head(m, e)) THEN expect(m, head(m, e))
  ELSE Ok(m, Value(Bool(~head(m, e).b)))

---------------------------------------------------------------------------
(* Evaluator::setSyntax.  The lexer and the parser are the black boxes of  *)
(* the evaluator: what they are handed is validated as the code validates  *)
(* it, and their tables are the sequences of what they were handed since   *)
(* they were cleared (a pattern of the lexer being the tree its NFA was    *)
(* made from).                                                             *)

\* The two symbols setSyntax adds first.
IgnoredSymbol == 0
StartSymbol == 1

\* Evaluator::getSymbol(name): the id of an interned name, interning it first
\* when it is new.
getSymbol(m, name) ==
  IF \E x \in m.nameSymbols : x[1] = name THEN m
  ELSE [m EXCEPT !.nameSymbols = @ \cup {<<name, Len(m.symbolNames)>>},
                 !.symbolNames = Append(@, name)]

RECURSIVE treePattern(_, _)
RECURSIVE listPatterns(_, _)
\* Evaluator::treePattern: the checks made on the way to the lexer's NFA.
treePattern(m, e) ==
  IF ~holds("Cons", e) THEN expect(m, e)
  ELSE IF ~holds("Symbol", head(m, e)) THEN expect(m, head(m, e))
  ELSE LET stag == head(m, e).val
           t    == tail(m, e)
       IN  CASE stag \in {"empty", "any", "utf8seg"} -> Ok(m, TRUE)
             [] stag \in {"char", "except", "word"} ->
                  IF ~holds("Cons", t) THEN expect(m, t)
                  ELSE IF ~holds("String", head(m, t)) THEN expect(m, head(m, t))
                  ELSE Ok(m, TRUE)
             [] stag = "range" ->
                  IF ~holds("Cons", t) THEN expect(m, t)
                  ELSE IF ~holds("Cons", tail(m, t)) THEN expect(m, tail(m, t))
                  ELSE IF ~holds("Nat64", head(m, t)) THEN expect(m, head(m, t))
                  ELSE IF ~holds("Nat64", head(m, tail(m, t))) THEN expect(m, head(m, tail(m, t)))
                  ELSE Ok(m, TRUE)
             [] stag \in {"alt", "concat"} -> listPatterns(m, t)
             [] stag \in {"opt", "star", "plus"} ->
                  IF ~holds("Cons", t) THEN expect(m, t) ELSE treePattern(m, head(m, t))
             [] OTHER -> Throw(m, "notimplemented", e)
\* Evaluator::listPatterns.
listPatterns(m, e) ==
  IF ~holds("Cons", e) THEN Ok(m, TRUE)
  ELSE LET r == treePattern(m, head(m, e))
       IN  IF r.k # "ok" THEN r ELSE listPatterns(m, tail(m, e))

RECURSIVE listSymbols(_, _)
\* Evaluator::listSymbols: every symbol of a rule's right-hand side interned.
listSymbols(m, e) ==
  IF ~holds("Cons", e) THEN Ok(m, TRUE)
  ELSE LET el == head(m, e)
       IN  IF ~holds("Cons", el) THEN expect(m, el)
           ELSE IF ~holds("Cons", tail(m, el)) THEN expect(m, tail(m, el))
           ELSE IF ~holds("Symbol", head(m, el)) THEN expect(m, head(m, el))
           ELSE IF ~holds("Nat64", head(m, tail(m, el)))
           THEN expect(IF m.argOrder = "ltr" THEN getSymbol(m, head(m, el).val) ELSE m,
                       head(m, tail(m, el)))
           ELSE listSymbols(getSymbol(m, head(m, el).val), tail(m, e))

\* The destructuring both loops of setSyntax start with:
\* (name (sym pre) rhs), with the first tree that is not a Cons as `bad`.
syntaxEntry(m, entry) ==
  LET t == tail(m, entry)
      u == tail(m, t)
      lhs == head(m, t)
      v == tail(m, lhs)
  IN  IF ~holds("Cons", entry) THEN [ok |-> FALSE, bad |-> entry]
      ELSE IF ~holds("Cons", t) THEN [ok |-> FALSE, bad |-> t]
      ELSE IF ~holds("Cons", u) THEN [ok |-> FALSE, bad |-> u]
      ELSE IF ~holds("Cons", lhs) THEN [ok |-> FALSE, bad |-> lhs]
      ELSE IF ~holds("Cons", v) THEN [ok |-> FALSE, bad |-> v]
      ELSE IF ~holds("Symbol", head(m, lhs)) THEN [ok |-> FALSE, bad |-> head(m, lhs)]
      ELSE [ok |-> TRUE, name |-> head(m, entry), sname |-> head(m, lhs).val,
            pre |-> head(m, v), rhs |-> head(m, u)]


RECURSIVE spine(_, _)
\* The values `it` takes in a loop
\* for (auto it = e; holds<Cons>(it); it = get<Cons>(it).tail).
spine(p, e) ==
  IF ~holds("Cons", e) THEN <<>> ELSE << e >> \o spine(p, getCons(p, e).tail)

\* lexer.addPattern(nfa), parser.addPattern(sid, prec) and parser.addRule(sid,
\* prec, rhs): the table with one more entry, and the ID of the entry, which
\* is the number of entries added since the table was cleared.
lexerAddPattern(m, nfa) ==
  [m |-> [m EXCEPT !.lexerPatterns = Append(@, [id |-> Len(@), nfa |-> nfa])],
   id |-> Len(m.lexerPatterns)]
parserAddPattern(m, sid, prec) ==
  [m |-> [m EXCEPT !.parserPatterns = Append(@, [id |-> Len(@), sym |-> sid, prec |-> prec])],
   id |-> Len(m.parserPatterns)]
parserAddRule(m, sid, prec, len) ==
  [m |-> [m EXCEPT !.parserRules = Append(@, [id |-> Len(@), lhs |-> sid, len |-> len])],
   id |-> Len(m.parserRules)]

\* The ID of an interned name.
symbolId(m, name) == (CHOOSE x \in m.nameSymbols : x[1] = name)[2]

\* lexer.addPattern(treePattern(rhs)) and parser.addPattern(sid, pre), each
\* with the check of the ID it returns against pid.
registerPattern(m, en, sid, pid) ==
  andThen(treePattern(m, en.rhs), LAMBDA tp :
    IF tp.k # "ok" THEN tp
    ELSE andThen(lexerAddPattern(m, en.rhs), LAMBDA lx :
      IF lx.id # pid THEN Throw(lx.m, "unreachable", en.rhs)
      ELSE IF ~holds("Nat64", en.pre) THEN expect(lx.m, en.pre)
      ELSE andThen(parserAddPattern(lx.m, sid, en.pre.n), LAMBDA pa :
        IF pa.id # pid THEN Throw(pa.m, "unreachable", en.pre) ELSE Ok(pa.m, TRUE))))

\* One iteration of the "Add patterns" loop of setSyntax.
addPattern(m, it) ==
  andThen(syntaxEntry(m, head(m, it)), LAMBDA en :
    IF ~en.ok THEN expect(m, en.bad)
    ELSE andThen(IF en.sname = "_" THEN m ELSE getSymbol(m, en.sname), LAMBDA m1 :
      IF ~holds("Symbol", en.name) THEN expect(m1, en.name)
      ELSE registerPattern([m1 EXCEPT !.patternNames = Append(@, en.name.val)], en,
                           IF en.sname = "_" THEN IgnoredSymbol ELSE symbolId(m1, en.sname),
                           Len(m.patternNames))))

\* parser.addRule(sid, pre, listSymbols(rhs)), the two last arguments being
\* evaluated in either order, with the check of the ID it returns against rid.
registerRule(m, en, sid, rid) ==
  IF m.argOrder = "ltr" /\ ~holds("Nat64", en.pre) THEN expect(m, en.pre)
  ELSE andThen(listSymbols(m, en.rhs), LAMBDA ls :
    IF ls.k # "ok" THEN ls
    ELSE IF ~holds("Nat64", en.pre) THEN expect(ls.m, en.pre)
    ELSE andThen(parserAddRule(ls.m, sid, en.pre.n, Len(spine(m.pool, en.rhs))), LAMBDA pa :
      IF pa.id # rid THEN Throw(pa.m, "unreachable", en.rhs) ELSE Ok(pa.m, TRUE)))

\* One iteration of the "Add rules" loop of setSyntax.
addRule(m, it) ==
  andThen(syntaxEntry(m, head(m, it)), LAMBDA en :
    IF ~en.ok THEN expect(m, en.bad)
    ELSE andThen(IF en.sname = "_" THEN m ELSE getSymbol(m, en.sname), LAMBDA m1 :
      IF ~holds("Symbol", en.name) THEN expect(m1, en.name)
      ELSE registerRule([m1 EXCEPT !.ruleNames = Append(@, en.name.val)], en,
                        IF en.sname = "_" THEN StartSymbol ELSE symbolId(m1, en.sname),
                        Len(m.ruleNames))))

RECURSIVE addPatterns(_, _, _, _)
\* The iterations of the "Add patterns" loop for its[lo..hi], after the
\* iterations before them left r; an exception ends the loop.
addPatterns(r, its, lo, hi) ==
  IF r.k # "ok" \/ lo > hi THEN r
  ELSE IF lo = hi THEN addPattern(r.m, its[lo])
  ELSE andThen(addPatterns(r, its, lo, (lo + hi) \div 2),
               LAMBDA x : addPatterns(x, its, (lo + hi) \div 2 + 1, hi))

RECURSIVE addRules(_, _, _, _)
\* The iterations of the "Add rules" loop for its[lo..hi].
addRules(r, its, lo, hi) ==
  IF r.k # "ok" \/ lo > hi THEN r
  ELSE IF lo = hi THEN addRule(r.m, its[lo])
  ELSE andThen(addRules(r, its, lo, (lo + hi) \div 2),
               LAMBDA x : addRules(x, its, (lo + hi) \div 2 + 1, hi))

\* A setSyntax that leaves the interned symbols in place.
setSyntaxKeepingSymbols(m, p, r) ==
  LET m0 == [m EXCEPT !.symbolNames = @ \o << "_", "_" >>,
                      !.patternNames = <<>>, !.ruleNames = <<>>,
                      !.lexerPatterns = <<>>, !.parserPatterns = <<>>, !.parserRules = <<>>,
                      !.patterns = p, !.rules = r]
      ps == spine(m.pool, p)
      rs == spine(m.pool, r)
  IN  andThen(addPatterns(Ok(m0, TRUE), ps, 1, Len(ps)),
              LAMBDA x : addRules(x, rs, 1, Len(rs)))

\* Evaluator::setSyntax(p, r).
setSyntax(m, p, r) ==
  LET m0 == [m EXCEPT !.symbolNames = << "_", "_" >>, !.nameSymbols = {},
                      !.patternNames = <<>>, !.ruleNames = <<>>,
                      !.lexerPatterns = <<>>, !.parserPatterns = <<>>, !.parserRules = <<>>,
                      !.patterns = p, !.rules = r]
      ps == spine(m.pool, p)
      rs == spine(m.pool, r)
  IN  andThen(addPatterns(Ok(m0, TRUE), ps, 1, Len(ps)),
              LAMBDA x : addRules(x, rs, 1, Len(rs)))

primSetSyntax(m, env, e) ==
  IF ~holds("Cons", e) THEN expect(m, e)
  ELSE IF ~holds("Cons", tail(m, e)) THEN expect(m, tail(m, e))
  ELSE LET r == setSyntax(m, head(m, e), head(m, tail(m, e)))
       IN  IF r.k # "ok" THEN r ELSE Ok(r.m, Value(Unit))

---------------------------------------------------------------------------
(* The interpreter as a machine.  A state is [m, c, K]: m is the           *)
(* evaluator, c what happens next (the call of a function of the           *)
(* interpreter, the return of a value, or an exception that unwinds), and  *)
(* K the activations that wait for it, innermost last.  An activation      *)
(* records the function it is of (f), where it resumes (at) and the locals *)
(* it needs then.                                                          *)

call(s, f, env, e) == [s EXCEPT !.c = [op |-> "call", f |-> f, env |-> env, e |-> e]]
return(s, v) == [s EXCEPT !.c = [op |-> "return", v |-> v]]
throw(s, k, err) == [s EXCEPT !.c = [op |-> "throw", k |-> k, v |-> err]]
push(s, fr) == [s EXCEPT !.K = Append(@, fr)]

\* The activation fr throws: its own handler, if it has one, sees the exception.
throwIn(s, fr, k, err) == throw(push(s, fr), k, err)

\* A step that made no call ends with r = [m, k, v].
settle(s, r) ==
  IF r.k = "ok" THEN return([s EXCEPT !.m = r.m], r.v)
  ELSE throw([s EXCEPT !.m = r.m], r.k, r.v)

\* expect<T>(at) fails.
mismatch(s, at) == throw(s, "PartialEvalError", PartialEvalError("type mismatch", at))

---------------------------------------------------------------------------
(* Primitive forms that call eval.                                         *)

primCond(s, env, e) ==
  IF ~holds("Cons", e) THEN mismatch(s, e)
  ELSE IF ~holds("Cons", tail(s.m, e)) THEN mismatch(s, tail(s.m, e))
  ELSE LET test    == head(s.m, e)
           t       == tail(s.m, e)
           iftrue  == head(s.m, t)
           u       == tail(s.m, t)
           iffalse == IF holds("Cons", u) THEN head(s.m, u) ELSE Unit
       IN  call(push(s, [f |-> "cond", env |-> env, iftrue |-> iftrue, iffalse |-> iffalse]),
                "eval", env, test)

\* A cond that evaluates the branch itself and returns its value.
condResumeNested(s, fr, v) ==
  IF ~holds("Bool", v) THEN mismatch(s, v)
  ELSE call(push(s, [f |-> "unquote"]), "eval", fr.env, IF v.b THEN fr.iftrue ELSE fr.iffalse)

\* cond, with the value of the test.
condResume(s, fr, v) ==
  IF ~holds("Bool", v) THEN mismatch(s, v)
  ELSE return(s, TailCall(fr.env, IF v.b THEN fr.iftrue ELSE fr.iffalse))

primQuote(s, env, e) ==
  IF ~holds("Cons", e) THEN mismatch(s, e)
  ELSE call(push(s, [f |-> "quote"]), "quasiquote", env, head(s.m, e))

primUnquote(s, env, e) ==
  IF ~holds("Cons", e) THEN mismatch(s, e)
  ELSE call(push(s, [f |-> "unquote"]), "eval", env, head(s.m, e))

\* quote and unquote, with the tree: the Result without a tail call.
quoteResume(s, fr, v) == return(s, Value(v))

primMatch(s, env, e) ==
  IF ~holds("Cons", e) THEN mismatch(s, e)
  ELSE IF ~holds("Cons", tail(s.m, e)) THEN mismatch(s, tail(s.m, e))
  ELSE call(push(s, [f |-> "match", env |-> env, clauses |-> head(s.m, tail(s.m, e))]),
            "eval", env, head(s.m, e))

\* match, with the target.
matchResume(s, fr, v) == settle(s, matchClauses(s.m, fr.env, v, fr.clauses, fr.clauses))

\* The loop of let from `it` on.  extend(env, expect<Symbol>(lhs).val,
\* eval(env, rhs)): the arguments are evaluated in the build's order.
letLoop(s, env, es, it) ==
  IF ~holds("Cons", it)
  THEN call(push(s, [f |-> "let", at |-> "beginList", env |-> env, es |-> es,
                     it |-> it, lhs |-> nullptr]),
            "beginList", env, es)
  ELSE LET def == head(s.m, it)
       IN  IF ~holds("Cons", def) THEN mismatch(s, def)
           ELSE IF ~holds("Cons", tail(s.m, def)) THEN mismatch(s, tail(s.m, def))
           ELSE LET lhs == head(s.m, def)
                    rhs == head(s.m, tail(s.m, def))
                IN  IF s.m.argOrder = "ltr" /\ ~holds("Symbol", lhs) THEN mismatch(s, lhs)
                    ELSE call(push(s, [f |-> "let", at |-> "eval", env |-> env, es |-> es,
                                       it |-> it, lhs |-> lhs]),
                              "eval", env, rhs)

primLet(s, env, e) ==
  IF ~holds("Cons", e) THEN mismatch(s, e)
  ELSE letLoop(s, env, tail(s.m, e), head(s.m, e))

\* A let whose definitions do not see each other: the loop goes on in the
\* environment the form was entered with.
letResumeParallel(s, fr, v) ==
  IF fr.at = "beginList" THEN return(s, TailCall(fr.env, v))
  ELSE IF ~holds("Symbol", fr.lhs) THEN mismatch(s, fr.lhs)
  ELSE LET x == extend(s.m.pool, fr.env, fr.lhs.val, v)
       IN  letLoop([s EXCEPT !.m.pool = x.pool], fr.env, fr.es, tail(s.m, fr.it))

\* let, with the value of a rhs or with what beginList returned.
letResume(s, fr, v) ==
  IF fr.at = "beginList" THEN return(s, TailCall(fr.env, v))
  ELSE IF ~holds("Symbol", fr.lhs) THEN mismatch(s, fr.lhs)
  ELSE LET x == extend(s.m.pool, fr.env, fr.lhs.val, v)
       IN  letLoop([s EXCEPT !.m.pool = x.pool], x.v, fr.es, tail(s.m, fr.it))

\* The second loop of letrec from `it` on: *refs[i++] = eval(env, rhs).
letrecLoop(s, env, es, it, refs) ==
  IF ~holds("Cons", it)
  THEN call(push(s, [f |-> "letrec", at |-> "beginList", env |-> env, es |-> es,
                     it |-> it, refs |-> refs]),
            "beginList", env, es)
  ELSE LET def == head(s.m, it)
       IN  IF ~holds("Cons", def) THEN mismatch(s, def)
           ELSE IF ~holds("Cons", tail(s.m, def)) THEN mismatch(s, tail(s.m, def))
           ELSE call(push(s, [f |-> "letrec", at |-> "eval", env |-> env, es |-> es,
                              it |-> it, refs |-> refs]),
                     "eval", env, head(s.m, tail(s.m, def)))

primLetrec(s, env, e) ==
  IF ~holds("Cons", e) THEN mismatch(s, e)
  ELSE LET rb == letrecBind(s.m, env, head(s.m, e), <<>>)
       IN  IF rb.k # "ok" THEN settle(s, rb)
           ELSE letrecLoop([s EXCEPT !.m = rb.m], rb.v.env, tail(s.m, e), head(s.m, e),
                           rb.v.refs)

\* A letrec that binds each value in a new entry and leaves the placeholder
\* cells as they are.
letrecResumeRebinding(s, fr, v) ==
  IF fr.at = "beginList" THEN return(s, TailCall(fr.env, v))
  ELSE LET x == extend(s.m.pool, fr.env, head(s.m, head(s.m, fr.it)).val, v)
       IN  letrecLoop([s EXCEPT !.m.pool = x.pool], x.v, fr.es, tail(s.m, fr.it),
                      Tail(fr.refs))

\* letrec, with the value of a rhs or with what beginList returned.
letrecResume(s, fr, v) ==
  IF fr.at = "beginList" THEN return(s, TailCall(fr.env, v))
  ELSE letrecLoop([s EXCEPT !.m.pool[fr.refs[1]].head = v], fr.env, fr.es,
                  tail(s.m, fr.it), Tail(fr.refs))

\* globalEnv = extend(globalEnv, expect<Symbol>(lhs).val, eval(env, rhs)):
\* a build that evaluates arguments left to right reads globalEnv before rhs
\* is evaluated, one that evaluates them right to left reads it afterwards.
primDefine(s, env, e) ==
  IF ~holds("Cons", e) THEN mismatch(s, e)
  ELSE IF ~holds("Cons", tail(s.m, e)) THEN mismatch(s, tail(s.m, e))
  ELSE LET lhs == head(s.m, e)
           rhs == head(s.m, tail(s.m, e))
       IN  IF s.m.argOrder = "ltr" /\ ~holds("Symbol", lhs) THEN mismatch(s, lhs)
           ELSE call(push(s, [f |-> "define", lhs |-> lhs, globalEnv |-> s.m.globalEnv]),
                     "eval", env, rhs)

\* define, with the value of rhs.
defineResume(s, fr, v) ==
  IF ~holds("Symbol", fr.lhs) THEN mismatch(s, fr.lhs)
  ELSE LET g == IF s.m.argOrder = "ltr" THEN fr.globalEnv ELSE s.m.globalEnv
           x == extend(s.m.pool, g, fr.lhs.val, v)
       IN  return([s EXCEPT !.m.pool = x.pool, !.m.globalEnv = x.v], Value(Unit))

\* addMacro(expect<Symbol>(lhs).val, expect<Closure>(eval(env, rhs))).
primDefineMacro(s, env, e) ==
  IF ~holds("Cons", e) THEN mismatch(s, e)
  ELSE IF ~holds("Cons", tail(s.m, e)) THEN mismatch(s, tail(s.m, e))
  ELSE LET lhs == head(s.m, e)
           rhs == head(s.m, tail(s.m, e))
       IN  IF s.m.argOrder = "ltr" /\ ~holds("Symbol", lhs) THEN mismatch(s, lhs)
           ELSE call(push(s, [f |-> "define_macro", lhs |-> lhs]), "eval", env, rhs)

\* define_macro, with the value of rhs.
defineMacroResume(s, fr, v) ==
  IF ~holds("Closure", v) THEN mismatch(s, v)
  ELSE IF ~holds("Symbol", fr.lhs) THEN mismatch(s, fr.lhs)
  ELSE return([s EXCEPT !.m = addMacro(s.m, fr.lhs.val, v)], Value(Unit))

primSet(s, env, e) ==
  IF ~holds("Cons", e) THEN mismatch(s, e)
  ELSE IF ~holds("Cons", tail(s.m, e)) THEN mismatch(s, tail(s.m, e))
  ELSE call(push(s, [f |-> "set", env |-> env, lhs |-> head(s.m, e)]),
            "eval", env, head(s.m, tail(s.m, e)))

\* set, with the value of rhs.
setResume(s, fr, v) ==
  IF ~holds("Symbol", fr.lhs) THEN mismatch(s, fr.lhs)
  ELSE settle(s, setCell(s.m, fr.env, fr.lhs.val, v, fr.lhs))

primBegin(s, env, e) == call(push(s, [f |-> "begin", env |-> env]), "beginList", env, e)

\* begin, with what beginList returned.
beginResume(s, fr, v) == return(s, TailCall(fr.env, v))

---------------------------------------------------------------------------
(* The evaluator.                                                          *)

\* f(env, args) of a primitive that makes no call to eval: the lambda
\* registered under `name`.  A primitive whose body the model leaves out ends
\* the run as "unmodelled".
procedure(name, m, env, e) ==
  CASE name = "lambda"         -> primLambda(m, env, e)
    [] name = "eval"           -> primEval(m, env, e)
    [] name = "env"            -> primEnv(m, env, e)
    [] name = "get_syntax"     -> primGetSyntax(m, env, e)
    [] name = "set_syntax"     -> primSetSyntax(m, env, e)
    [] name = "get_global_env" -> primGetGlobalEnv(m, env, e)
    [] name = "set_global_env" -> primSetGlobalEnv(m, env, e)
    [] name = "nil"            -> primNil(m, env, e)
    [] name = "cons"           -> primCons(m, env, e)
    [] name = "list"           -> primList(m, env, e)
    [] name = "id"             -> primId(m, env, e)
    [] name = "string_symbol"  -> primStringSymbol(m, env, e)
    [] name = "string_nat64"   -> primStringNat64(m, env, e)
    [] name = "display"        -> primDisplay(m, env, e)
    [] name = "not"            -> primNot(m, env, e)
    [] name \in {"add", "sub", "mul", "le", "lt", "ge", "gt", "eq", "neq"} ->
         primNat64(name, m, env, e)
    [] OTHER -> Throw(m, "unmodelled", name)

\* f(env, args) of prims[id], for the primitive registered under `name`.
applyPrim(s, name, env, e) ==
  CASE name = "cond"         -> primCond(s, env, e)
    [] name = "quote"        -> primQuote(s, env, e)
    [] name = "unquote"      -> primUnquote(s, env, e)
    [] name = "match"        -> primMatch(s, env, e)
    [] name = "let"          -> primLet(s, env, e)
    [] name = "letrec"       -> primLetrec(s, env, e)
    [] name = "define"       -> primDefine(s, env, e)
    [] name = "define_macro" -> primDefineMacro(s, env, e)
    [] name = "set"          -> primSet(s, env, e)
    [] name = "begin"        -> primBegin(s, env, e)
    [] OTHER                 -> settle(s, procedure(name, s.m, env, e))

\* A Symbol branch that falls back on the global environment of the moment.
evalSymbolGlobal(m, env, e) ==
  LET val == lookup(m.pool, env, e.val)
      g   == lookup(m.pool, m.globalEnv, e.val)
  IN  IF val # nullptr THEN Ok(m, val)
      ELSE IF g # nullptr THEN Ok(m, g)
      ELSE IF namePrims(e.val) # -1 THEN Ok(m, Prim(namePrims(e.val)))
      ELSE Throw(m, "PartialEvalError", PartialEvalError("unbound symbol", e))

\* The Symbol branch of eval.
evalSymbol(m, env, e) ==
  LET val == lookup(m.pool, env, e.val)
  IN  IF val # nullptr THEN Ok(m, val)
      ELSE IF namePrims(e.val) # -1 THEN Ok(m, Prim(namePrims(e.val)))
      ELSE Throw(m, "PartialEvalError", PartialEvalError("unbound symbol", e))

\* The invocations of eval active at once when one more is entered.
depth(s) == Cardinality({i \in DOMAIN s.K : s.K[i].f = "eval"}) + 1

\* One iteration of the loop of Evaluator::eval, up to its first call.
evalLoop(s, env, e) ==
  IF holds("Symbol", e) THEN settle(s, evalSymbol(s.m, env, e))
  ELSE IF holds("Cons", e)
  THEN call(push(s, [f |-> "eval", at |-> "head", env |-> env, e |-> e, ehead |-> nullptr]),
            "eval", env, head(s.m, e))
  ELSE return(s, e)

\* Evaluator::eval is entered.
evalEnter(s, env, e) ==
  evalLoop([s EXCEPT !.m.maxDepth = IF depth(s) > @ THEN depth(s) ELSE @], env, e)

\* "Primitive function application", with the arguments f is given.
evalPrimApplication(s, fr, args) ==
  LET name == prims[fr.ehead.id + 1].name
  IN  applyPrim(push([s EXCEPT !.m.ran = @ \cup {name},
                               !.m.primCalls = Append(@, [name |-> name, at |-> fr.at,
                                                          written |-> tail(s.m, fr.e),
                                                          args |-> args])],
                     [fr EXCEPT !.at = "f"]),
                name, fr.env, args)

\* A closure application that matches the parameters in the caller's env.
evalClosureApplicationDynamic(s, fr, params) ==
  LET cl == fr.ehead
      mt == match(s.m.pool, params, cl.formal, fr.env, FALSE)
      s1 == [s EXCEPT !.m.pool = mt.pool, !.m.calls = @ + 1,
                      !.m.apps = Append(@, [env |-> fr.env, cl |-> cl, params |-> params,
                                            matched |-> mt.k = "ok" /\ mt.v,
                                            body |-> mt.env])]
  IN  IF mt.k # "ok" THEN throwIn(s1, fr, mt.k, mt.v)
      ELSE IF ~mt.v
      THEN throwIn(s1, fr, "EvalError",
                   EvalError("pattern matching failed", tail(s.m, fr.e), fr.e))
      ELSE call(push(s1, [fr EXCEPT !.at = "beginList", !.env = mt.env]),
                "beginList", mt.env, cl.es)

\* "Lambda function application", with the evaluated parameters.
evalClosureApplication(s, fr, params) ==
  LET cl == fr.ehead
      mt == match(s.m.pool, params, cl.formal, cl.env, FALSE)
      s1 == [s EXCEPT !.m.pool = mt.pool, !.m.calls = @ + 1,
                      !.m.apps = Append(@, [env |-> fr.env, cl |-> cl, params |-> params,
                                            matched |-> mt.k = "ok" /\ mt.v,
                                            body |-> mt.env])]
  IN  IF mt.k # "ok" THEN throwIn(s1, fr, mt.k, mt.v)
      ELSE IF ~mt.v
      THEN throwIn(s1, fr, "EvalError",
                   EvalError("pattern matching failed", tail(s.m, fr.e), fr.e))
      ELSE call(push(s1, [fr EXCEPT !.at = "beginList", !.env = mt.env]),
                "beginList", mt.env, cl.es)

\* Evaluator::eval resumes in its try block, with the value v of the call it
\* waited for.
evalResume(s, fr, v) ==
  CASE fr.at = "head" ->
         IF holds("Prim", v)
         THEN (IF prims[v.id + 1].evalParams
               THEN call(push(s, [fr EXCEPT !.at = "evalList", !.ehead = v]),
                         "evalList", fr.env, tail(s.m, fr.e))
               ELSE evalPrimApplication(s, [fr EXCEPT !.ehead = v], tail(s.m, fr.e)))
         ELSE IF holds("Closure", v)
         THEN call(push(s, [fr EXCEPT !.at = "params", !.ehead = v]),
                   "evalList", fr.env, tail(s.m, fr.e))
         ELSE throwIn(s, fr, "EvalError",
                      EvalError("head element is not a function", head(s.m, fr.e), fr.e))
    [] fr.at = "evalList" -> evalPrimApplication(s, fr, v)
    [] fr.at = "f" -> IF v.env = nullptr THEN return(s, v.e) ELSE evalLoop(s, v.env, v.e)
    [] fr.at = "params" -> evalClosureApplication(s, fr, v)
    [] fr.at = "beginList" -> evalLoop(s, fr.env, v)

\* Evaluator::evalList is entered.  (Pointer equality of two atoms is equality
\* of their values here.)
evalListEnter(s, env, e) ==
  IF holds("Nil", e) THEN return(s, e)
  ELSE IF holds("Cons", e)
  THEN call(push(s, [f |-> "evalList", at |-> "head", env |-> env, e |-> e,
                     ehead |-> nullptr]),
            "eval", env, head(s.m, e))
  ELSE call(s, "eval", env, e)

evalListResume(s, fr, v) ==
  IF fr.at = "head"
  THEN call(push(s, [fr EXCEPT !.at = "tail", !.ehead = v]), "evalList", fr.env,
            tail(s.m, fr.e))
  ELSE IF fr.ehead = head(s.m, fr.e) /\ v = tail(s.m, fr.e) THEN return(s, fr.e)
  ELSE settle(s, cons(s.m, fr.ehead, v))

RECURSIVE beginListLoopSkipping(_, _, _, _)
\* A loop that passes over the elements before the last one without
\* evaluating them.
beginListLoopSkipping(s, env, e, it) ==
  IF holds("Cons", it)
  THEN IF ~holds("Cons", tail(s.m, it))
       THEN (IF holds("Nil", tail(s.m, it)) THEN return(s, head(s.m, it))
             ELSE mismatch(s, tail(s.m, it)))
       ELSE beginListLoopSkipping(s, env, e, tail(s.m, it))
  ELSE IF holds("Nil", e) THEN return(s, Unit) ELSE mismatch(s, e)

\* The loop of Evaluator::beginList from `it` on.
beginListLoop(s, env, e, it) ==
  IF holds("Cons", it)
  THEN IF ~holds("Cons", tail(s.m, it))
       THEN (IF holds("Nil", tail(s.m, it)) THEN return(s, head(s.m, it))
             ELSE mismatch(s, tail(s.m, it)))
       ELSE call(push(s, [f |-> "beginList", env |-> env, e |-> e, it |-> it]),
                 "eval", env, head(s.m, it))
  ELSE IF holds("Nil", e) THEN return(s, Unit) ELSE mismatch(s, e)

beginListResume(s, fr, v) == beginListLoop(s, fr.env, fr.e, tail(s.m, fr.it))

\* A quasiquote that evaluates whatever is no Cons.
quasiquoteEnterEvaluating(s, env, e) ==
  IF holds("Cons", e)
  THEN IF head(s.m, e) = Symbol("unquote")
       THEN (IF ~holds("Cons", tail(s.m, e)) THEN mismatch(s, tail(s.m, e))
             ELSE call(s, "eval", env, head(s.m, tail(s.m, e))))
       ELSE call(push(s, [f |-> "quasiquote", at |-> "head", env |-> env, e |-> e,
                          ehead |-> nullptr]),
                 "quasiquote", env, head(s.m, e))
  ELSE call(s, "eval", env, e)

\* Evaluator::quasiquote is entered.
quasiquoteEnter(s, env, e) ==
  IF holds("Cons", e)
  THEN IF head(s.m, e) = Symbol("unquote")
       THEN (IF ~holds("Cons", tail(s.m, e)) THEN mismatch(s, tail(s.m, e))
             ELSE call(s, "eval", env, head(s.m, tail(s.m, e))))
       ELSE call(push(s, [f |-> "quasiquote", at |-> "head", env |-> env, e |-> e,
                          ehead |-> nullptr]),
                 "quasiquote", env, head(s.m, e))
  ELSE return(s, e)

quasiquoteResume(s, fr, v) ==
  IF fr.at = "head"
  THEN call(push(s, [fr EXCEPT !.at = "tail", !.ehead = v]), "quasiquote", fr.env,
            tail(s.m, fr.e))
  ELSE IF fr.ehead = head(s.m, fr.e) /\ v = tail(s.m, fr.e) THEN return(s, fr.e)
  ELSE settle(s, cons(s.m, fr.ehead, v))

---------------------------------------------------------------------------
(* The macro expander.                                                     *)

\* Evaluator::expand is entered.
expandEnter(s, e) ==
  IF holds("Cons", e)
  THEN call(push(s, [f |-> "expand", at |-> "expandList", env |-> nullptr, e |-> e]),
            "expandList", nullptr, e)
  ELSE return(s, e)

\* An expand that expands the value of the macro's body once more.
expandResumeAgain(s, fr, v) ==
  CASE fr.at = "expandList" ->
         LET hd  == head(s.m, v)
             ex  == [fr EXCEPT !.e = v]
             idx == IF holds("Symbol", hd) THEN findMacro(s.m, hd.val) ELSE -1
             cl  == s.m.macros[idx + 1]
             mt  == match(s.m.pool, tail(s.m, v), cl.formal, cl.env, FALSE)
             s1  == [s EXCEPT !.m.pool = mt.pool]
         IN  IF idx = -1 THEN return(s, v)
             ELSE IF mt.k # "ok" THEN throwIn(s1, ex, mt.k, mt.v)
             ELSE IF ~mt.v
             THEN throwIn(s1, ex, "EvalError",
                          EvalError("pattern matching failed", tail(s.m, v), v))
             ELSE call(push(s1, [ex EXCEPT !.at = "beginList", !.env = mt.env]),
                       "beginList", mt.env, cl.es)
    [] fr.at = "beginList" -> call(push(s, [fr EXCEPT !.at = "eval"]), "eval", fr.env, v)
    [] fr.at = "eval" -> call(s, "expand", nullptr, v)

\* Evaluator::expand resumes in its try block: with e = expandList(e), with
\* what beginList returned, or with the value of the macro's body.
expandResume(s, fr, v) ==
  CASE fr.at = "expandList" ->
         LET hd  == head(s.m, v)
             ex  == [fr EXCEPT !.e = v]
             idx == IF holds("Symbol", hd) THEN findMacro(s.m, hd.val) ELSE -1
             cl  == s.m.macros[idx + 1]
             mt  == match(s.m.pool, tail(s.m, v), cl.formal, cl.env, FALSE)
             s1  == [s EXCEPT !.m.pool = mt.pool]
         IN  IF idx = -1 THEN return(s, v)
             ELSE IF mt.k # "ok" THEN throwIn(s1, ex, mt.k, mt.v)
             ELSE IF ~mt.v
             THEN throwIn(s1, ex, "EvalError",
                          EvalError("pattern matching failed", tail(s.m, v), v))
             ELSE call(push(s1, [ex EXCEPT !.at = "beginList", !.env = mt.env]),
                       "beginList", mt.env, cl.es)
    [] fr.at = "beginList" -> call(push(s, [fr EXCEPT !.at = "eval"]), "eval", fr.env, v)
    [] fr.at = "eval" -> return(s, v)

\* Evaluator::expandList is entered.
expandListEnter(s, e) ==
  IF holds("Nil", e) THEN return(s, e)
  ELSE IF holds("Cons", e)
  THEN call(push(s, [f |-> "expandList", at |-> "head", e |-> e, ehead |-> nullptr]),
            "expand", nullptr, head(s.m, e))
  ELSE call(s, "expand", nullptr, e)

expandListResume(s, fr, v) ==
  IF fr.at = "head"
  THEN call(push(s, [fr EXCEPT !.at = "tail", !.ehead = v]), "expandList", nullptr,
            tail(s.m, fr.e))
  ELSE IF fr.ehead = head(s.m, fr.e) /\ v = tail(s.m, fr.e) THEN return(s, fr.e)
  ELSE settle(s, cons(s.m, fr.ehead, v))

---------------------------------------------------------------------------
(* The steps of the machine.                                               *)

\* Evaluator::evalParsedStatement resumes: e = expand(e), then
\* e = eval(globalEnv, e).
evalParsedStatementResume(s, fr, v) ==
  IF fr.at = "expand"
  THEN call(push([s EXCEPT !.m.phase = "eval", !.m.expanded = v, !.m.maxDepth = 0],
                 [fr EXCEPT !.at = "eval"]),
            "eval", s.m.globalEnv, v)
  ELSE return(s, v)

\* The function c.f is entered.
enter(s) ==
  CASE s.c.f = "eval"       -> evalEnter(s, s.c.env, s.c.e)
    [] s.c.f = "evalList"   -> evalListEnter(s, s.c.env, s.c.e)
    [] s.c.f = "beginList"  -> beginListLoop(s, s.c.env, s.c.e, s.c.e)
    [] s.c.f = "quasiquote" -> quasiquoteEnter(s, s.c.env, s.c.e)
    [] s.c.f = "expand"     -> expandEnter(s, s.c.e)
    [] s.c.f = "expandList" -> expandListEnter(s, s.c.e)

\* The innermost activation fr resumes with the value v.
resume(s, fr, v) ==
  CASE fr.f = "eval"         -> evalResume(s, fr, v)
    [] fr.f = "evalList"     -> evalListResume(s, fr, v)
    [] fr.f = "beginList"    -> beginListResume(s, fr, v)
    [] fr.f = "quasiquote"   -> quasiquoteResume(s, fr, v)
    [] fr.f = "expand"       -> expandResume(s, fr, v)
    [] fr.f = "expandList"   -> expandListResume(s, fr, v)
    [] fr.f = "cond"         -> condResume(s, fr, v)
    [] fr.f \in {"quote", "unquote"} -> quoteResume(s, fr, v)
    [] fr.f = "match"        -> matchResume(s, fr, v)
    [] fr.f = "let"          -> letResume(s, fr, v)
    [] fr.f = "letrec"       -> letrecResume(s, fr, v)
    [] fr.f = "define"       -> defineResume(s, fr, v)
    [] fr.f = "define_macro" -> defineMacroResume(s, fr, v)
    [] fr.f = "set"          -> setResume(s, fr, v)
    [] fr.f = "begin"        -> beginResume(s, fr, v)
    [] fr.f = "evalParsedStatement" -> evalParsedStatementResume(s, fr, v)

\* An unwinding that also empties the global environment.
unwindReset(s, fr, k, err) ==
  IF fr.f \in {"eval", "expand"} /\ k = "PartialEvalError"
  THEN throw([s EXCEPT !.m.globalEnv = Nil], "EvalError", EvalError(err.msg, err.at, fr.e))
  ELSE throw([s EXCEPT !.m.globalEnv = Nil], k, err)

\* An exception leaves the activation fr.  The try blocks of eval and expand:
\* catch (PartialEvalError& ex) { throw EvalError(ex.what(), ex.at, e); }
\* (An EvalError keeps the surrounding tree it was thrown with.)
unwind(s, fr, k, err) ==
  IF fr.f \in {"eval", "expand"} /\ k = "PartialEvalError"
  THEN throw(s, "EvalError", EvalError(err.msg, err.at, fr.e))
  ELSE throw(s, k, err)

\* The machine has nothing left to do.
halted(s) == s.K = <<>> /\ s.c.op # "call"

step(s) ==
  LET fr  == s.K[Len(s.K)]
      pop == [s EXCEPT !.K = SubSeq(@, 1, Len(@) - 1)]
  IN  CASE s.c.op = "call"   -> enter(s)
        [] s.c.op = "return" -> resume(pop, fr, s.c.v)
        [] s.c.op = "throw"  -> unwind(pop, fr, s.c.k, s.c.v)

RECURSIVE run(_, _)
\* 2^k steps of the machine, or as many as it takes to halt: the set of the
\* one state it ends in.
run(k, s) ==
  CASE halted(s) -> {s}
    [] k = 0 -> {step(s)}
    [] OTHER -> UNION {run(k - 1, t) : t \in run(k - 1, s)}

(* The constructor: the default syntax and macros.                         *)

symbol(s) == LList(<< Symbol(s), Nat64(0) >>)
pattern(name, lhs, pat) == LList(<< Symbol(name), lhs, pat >>)
rule(name, lhs, rhs) == LList(<< Symbol(name), lhs, LList(rhs) >>)
chars(s) == LList(<< Symbol("char"), String(s) >>)
except(s) == LList(<< Symbol("except"), String(s) >>)
range(l, u) == LList(<< Symbol("range"), Nat64(l), Nat64(u) >>)
word(s) == LList(<< Symbol("word"), String(s) >>)
alt(ps) == LList(<< Symbol("alt") >> \o ps)
concat(ps) == LList(<< Symbol("concat") >> \o ps)
star(pat) == LList(<< Symbol("star"), pat >>)
plus(pat) == LList(<< Symbol("plus"), pat >>)
utf8seg == LList(<< Symbol("utf8seg") >>)

defaultPatterns ==
  LList(<<
    pattern("_", symbol("_"), star(chars(" \f\n\r\t"))),
    pattern("_", symbol("_"), concat(<< word("//"), star(except("\n\r")) >>)),
    pattern("_", symbol("_"),
      concat(<< word("/*"),
                star(concat(<< star(except("*")), plus(chars("*")), except("/") >>)),
                star(except("*")),
                plus(chars("*")),
                chars("/") >>)),
    pattern("symbol'", symbol("tree"),
      concat(<< alt(<< range(97, 122), range(65, 90), chars("_'"), utf8seg >>),
                star(alt(<< range(97, 122), range(65, 90), range(48, 57),
                            chars("_'"), utf8seg >>)) >>)),
    pattern("nat64'", symbol("tree"),
      alt(<< plus(range(48, 57)),
             concat(<< chars("0"), chars("xX"),
                       plus(alt(<< range(48, 57), range(97, 102), range(65, 70) >>)) >>) >>)),
    pattern("string'", symbol("tree"),
      concat(<< chars("\""),
                star(alt(<< except("\\\""),
                            concat(<< chars("\\"), chars("\\\"abfnrtv") >>) >>)),
                chars("\"") >>)),
    pattern("_", symbol("left_paren"), word("(")),
    pattern("_", symbol("right_paren"), word(")")),
    pattern("_", symbol("period"), word(".")),
    pattern("_", symbol("quote"), word(grave)),
    pattern("_", symbol("comma"), word(","))
  >>)

defaultRules ==
  LList(<<
    rule("nil'",     symbol("list"), << >>),
    rule("cons'",    symbol("list"), << symbol("tree"), symbol("list") >>),
    rule("period'",  symbol("list"), << symbol("tree"), symbol("period"), symbol("tree") >>),
    rule("quote'",   symbol("tree"), << symbol("quote"), symbol("tree") >>),
    rule("unquote'", symbol("tree"), << symbol("comma"), symbol("tree") >>),
    rule("tree'",    symbol("tree"),
         << symbol("left_paren"), symbol("list"), symbol("right_paren") >>),
    rule("id'",      symbol("_"),    << symbol("tree") >>)
  >>)

\* The default macros in the order of the addMacro calls: name, formal, es.
defaultMacros ==
  LET S(xs) == LList(xs)
      Y(x)  == Symbol(x)
  IN  << << "symbol'",  S(<< Y("s") >>), S(<< S(<< Y("string_symbol"), Y("s") >>) >>) >>,
         << "nat64'",   S(<< Y("n") >>), S(<< S(<< Y("string_nat64"), Y("n") >>) >>) >>,
         << "string'",  S(<< Y("s") >>),
            S(<< S(<< Y("string_unescape"),
                      S(<< Y("string_substr"), Y("s"), Nat64(1),
                           S(<< Y("sub"), S(<< Y("string_length"), Y("s") >>), Nat64(2) >>)
                        >>) >>) >>) >>,
         << "nil'",     S(<< >>), S(<< S(<< Y("nil") >>) >>) >>,
         << "cons'",    S(<< Y("l"), Y("r") >>), S(<< S(<< Y("cons"), Y("l"), Y("r") >>) >>) >>,
         << "id'",      S(<< Y("l") >>), S(<< Y("l") >>) >>,
         << "period'",  S(<< Y("l"), Y("_"), Y("r") >>),
            S(<< S(<< Y("cons"), Y("l"), Y("r") >>) >>) >>,
         << "quote'",   S(<< Y("_"), Y("l") >>),
            S(<< S(<< Y("list"), S(<< Y("string_symbol"), String("quote") >>), Y("l") >>) >>) >>,
         << "unquote'", S(<< Y("_"), Y("l") >>),
            S(<< S(<< Y("list"), S(<< Y("string_symbol"), String("unquote") >>), Y("l") >>) >>) >>,
         << "tree'",    S(<< Y("_"), Y("l"), Y("_") >>), S(<< Y("l") >>) >>
      >>

\* addMacro(name, Closure{ globalEnv, formal, es }) for the default macro ms[i].
addDefaultMacro(m, ms, i) ==
  andThen(alloc(m.pool, ms[i][2]), LAMBDA f :
    andThen(alloc(f.pool, ms[i][3]), LAMBDA es :
      addMacro([m EXCEPT !.pool = es.pool], ms[i][1], Closure(m.globalEnv, f.v, es.v))))

RECURSIVE addDefaultMacros(_, _, _, _)
\* The addMacro calls of the constructor for ms[lo..hi], in order.
addDefaultMacros(m, ms, lo, hi) ==
  IF lo > hi THEN m
  ELSE IF lo = hi THEN addDefaultMacro(m, ms, lo)
  ELSE andThen(addDefaultMacros(m, ms, lo, (lo + hi) \div 2),
               LAMBDA x : addDefaultMacros(x, ms, (lo + hi) \div 2 + 1, hi))

\* The trees of the default syntax, built in the empty arena.
defaultSyntax ==
  LET p == alloc(<<>>, defaultPatterns)
      r == alloc(p.pool, defaultRules)
  IN  [pool |-> r.pool, patterns |-> p.v, rules |-> r.v]

\* Evaluator::Evaluator(): the evaluator a build with argument order `order`
\* constructs.
constructed(order) ==
  LET m0 == [pool |-> defaultSyntax.pool, globalEnv |-> Nil, patterns |-> Nil, rules |-> Nil,
             symbolNames |-> <<>>, nameSymbols |-> {}, patternNames |-> <<>>,
             ruleNames |-> <<>>, macros |-> <<>>, nameMacros |-> {},
             lexerPatterns |-> <<>>, parserPatterns |-> <<>>, parserRules |-> <<>>,
             argOrder |-> order, ran |-> {}, maxDepth |-> 0, calls |-> 0, apps |-> <<>>,
             primCalls |-> <<>>, phase |-> "none", expanded |-> nullptr]
  IN  andThen(setSyntax(m0, defaultSyntax.patterns, defaultSyntax.rules),
              LAMBDA s : addDefaultMacros(s.m, defaultMacros, 1, Len(defaultMacros)))

\* The depth to which a result is observed.
ReifyDepth == 8

\* Evaluator::evalParsedStatement, on the tree `raw` that resolve() returns.
\* The result r is that of the failing step, or of eval; `phase` names the
\* step and `expanded` is the expanded tree.  A run that is out of steps ends
\* as "fuel".
evalParsedStatement(m, raw) ==
  LET e == alloc(m.pool, raw)
      s == CHOOSE t \in run(FuelBits,
               [m |-> [m EXCEPT !.pool = e.pool, !.phase = "expand", !.expanded = nullptr],
                c |-> [op |-> "call", f |-> "expand", env |-> nullptr, e |-> e.v],
                K |-> << [f |-> "evalParsedStatement", at |-> "expand"] >>]) : TRUE
  IN  [r |-> [m |-> s.m,
              k |-> IF e.v = nullptr \/ ~halted(s) THEN "fuel"
                    ELSE IF s.c.op = "return" THEN "ok" ELSE s.c.k,
              v |-> IF e.v = nullptr \/ ~halted(s) THEN nullptr ELSE s.c.v],
       phase |-> s.m.phase, expanded |-> s.m.expanded]

---------------------------------------------------------------------------
(* The parse-forest resolver.  The Earley parser is a black box: resolve   *)
(* reads its sentence (tokens [pattern, lexeme]), its forest (indexed      *)
(* [pos][i], a cell being [state, links] with state = [startPos, rule,     *)
(* progress] and a link [prev, child]) and its rules ([lhs, len]).  The    *)
(* resolver is a machine of its own: [pool, c, K, printed], K holding the  *)
(* activations of resolve that wait for a call to return.                  *)

Location(pos, i) == [pos |-> pos, i |-> i]

\* EarleyParser::Leaf: the child link of a scanned token, no cell of a forest.
Leaf == Location(-1, -1)

\* parser.getForest()[loc.pos][loc.i]
cellAt(P, loc) == P.forest[loc.pos + 1][loc.i + 1]

\* parser.getRule(id): what addRule was handed.
getRule(P, id) == P.rules[id + 1]

\* for (c: hs) for (r: ts) push_back(cons(c, r)): the arena and the new trees.
consAll(p, hs, ts) ==
  LET n == Len(hs) * Len(ts)
  IN  [pool |-> p \o [k \in 1..n |-> [head |-> hs[(k - 1) \div Len(ts) + 1],
                                      tail |-> ts[((k - 1) % Len(ts)) + 1]]],
       v |-> [k \in 1..n |-> ConsAt(Len(p) + k)]]

\* The frames the call stack has room for.
StackLimit == 24

\* resolve(loc, right, maxDepth) is called; a call the stack has no room for
\* ends the program.
callResolve(s, loc, right, maxDepth) ==
  IF Len(s.K) >= StackLimit
  THEN [s EXCEPT !.c = [op |-> "throw", k |-> "stack overflow"], !.K = <<>>]
  ELSE [s EXCEPT !.c = [op |-> "call", f |-> "resolve", loc |-> loc, right |-> right,
                        maxDepth |-> maxDepth]]

\* The fatal macros: the program does not go on.
notimplemented(s) == [s EXCEPT !.c = [op |-> "throw", k |-> "notimplemented"], !.K = <<>>]
unreachable(s) == [s EXCEPT !.c = [op |-> "throw", k |-> "unreachable"], !.K = <<>>]

\* A descent that hands the child its caller's whole budget.
resolveChildUndiminished(s, fr, link) ==
  callResolve(push(s, [fr EXCEPT !.at = "child"]), link.child, << Nil >>, fr.maxDepth)

\* child = resolve(childLink, { nil }, maxDepth - 1)
resolveChild(s, fr, link) ==
  callResolve(push(s, [fr EXCEPT !.at = "child"]), link.child, << Nil >>, fr.maxDepth - 1)

\* With the trees of the child: curr, and final = resolve(prevLink, curr, maxDepth).
resolvePrev(E, s, fr, child) ==
  LET link == cellAt(E.parser, fr.loc).links[fr.j]
      x    == consAll(s.pool, child, fr.right)
  IN  callResolve(push([s EXCEPT !.pool = x.pool], [fr EXCEPT !.at = "prev"]),
                  link.prev, x.v, fr.maxDepth)

\* A loop over the links that takes the first token of the sentence for every
\* leaf.
resolveLinksFirstToken(E, s, fr) ==
  LET links == cellAt(E.parser, fr.loc).links
  IN  IF fr.j > Len(links) THEN return(s, fr.res)
      ELSE IF links[fr.j].child = Leaf
      THEN LET tok == E.parser.sentence[1]
               x   == emplaceBack(s.pool, String(tok.lexeme), Nil)
               y   == emplaceBack(x.pool, Symbol(E.patternNames[tok.pattern + 1]), x.v)
           IN  resolvePrev(E, [s EXCEPT !.pool = y.pool], fr, << y.v >>)
      ELSE resolveChild(s, fr, links[fr.j])

\* The loop over the links, at link fr.j.
resolveLinks(E, s, fr) ==
  LET links == cellAt(E.parser, fr.loc).links
  IN  IF fr.j > Len(links) THEN return(s, fr.res)
      ELSE IF links[fr.j].child = Leaf
      THEN LET tok == E.parser.sentence[fr.loc.pos]
               x   == emplaceBack(s.pool, String(tok.lexeme), Nil)
               y   == emplaceBack(x.pool, Symbol(E.patternNames[tok.pattern + 1]), x.v)
           IN  resolvePrev(E, [s EXCEPT !.pool = y.pool], fr, << y.v >>)
      ELSE resolveChild(s, fr, links[fr.j])

\* Evaluator::resolve(loc, right, maxDepth), up to its first call.
resolve(E, s, loc, right, maxDepth) ==
  IF maxDepth = 0 THEN return(s, <<>>)
  ELSE LET state == cellAt(E.parser, loc).state
       IN  IF state.progress = 0
           THEN LET x == consAll(s.pool, << Symbol(E.ruleNames[state.rule + 1]) >>, right)
                IN  return([s EXCEPT !.pool = x.pool], x.v)
           ELSE resolveLinks(E, s, [f |-> "resolve", at |-> "links", loc |-> loc,
                                    right |-> right, maxDepth |-> maxDepth, j |-> 1,
                                    res |-> <<>>])

\* resolve, with what the call for the child or for prev returned.
resolveResume(E, s, fr, v) ==
  IF fr.at = "child" THEN resolvePrev(E, s, fr, v)
  ELSE resolveLinks(E, s, [fr EXCEPT !.res = @ \o v, !.j = @ + 1])

\* A resolver that settles for the first parse.
resolveResultFirst(s, all) ==
  IF all = <<>> THEN notimplemented(s) ELSE return(s, all[1])

\* The end of the top-level resolve: no parse, one, or several, which are
\* printed.
resolveResult(s, all) ==
  IF all = <<>> THEN notimplemented(s)
  ELSE IF Len(all) > 1
  THEN notimplemented([s EXCEPT !.printed =
                          @ \o [k \in DOMAIN all |-> reify(s.pool, all[k], Len(s.pool) + 1)]])
  ELSE return(s, all[1])

\* The cell is a completed item of the start symbol that spans the sentence.
completed(P, cell) ==
  /\ cell.state.startPos = 0
  /\ getRule(P, cell.state.rule).lhs = StartSymbol
  /\ cell.state.progress = getRule(P, cell.state.rule).len

\* The loop of the top-level resolve from cell fr.i on.
resolveTopLoop(E, s, fr) ==
  LET pos == Len(E.parser.sentence)
      row == E.parser.forest[pos + 1]
      is  == {i \in fr.i..Len(row) : completed(E.parser, row[i])}
  IN  IF is = {} THEN resolveResult(s, fr.all)
      ELSE LET i == CHOOSE i \in is : \A k \in is : i <= k
           IN  callResolve(push(s, [fr EXCEPT !.i = i]), Location(pos, i - 1), << Nil >>,
                           fr.maxDepth)

\* Evaluator::resolve(maxDepth), up to its first call.
resolveTop(E, s, maxDepth) ==
  IF Len(E.parser.sentence) >= Len(E.parser.forest) THEN unreachable(s)
  ELSE resolveTopLoop(E, s, [f |-> "top", i |-> 1, all |-> <<>>, maxDepth |-> maxDepth])

\* One step of the resolver.
resolveStep(E, s) ==
  LET fr  == s.K[Len(s.K)]
      pop == [s EXCEPT !.K = SubSeq(@, 1, Len(@) - 1)]
  IN  CASE s.c.op = "call" /\ s.c.f = "top" -> resolveTop(E, s, s.c.maxDepth)
        [] s.c.op = "call" /\ s.c.f = "resolve" ->
             resolve(E, s, s.c.loc, s.c.right, s.c.maxDepth)
        [] s.c.op = "return" /\ fr.f = "top" ->
             resolveTopLoop(E, pop, [fr EXCEPT !.all = @ \o s.c.v, !.i = @ + 1])
        [] s.c.op = "return" /\ fr.f = "resolve" -> resolveResume(E, pop, fr, s.c.v)

\* No resolve is under way.
idle == [c |-> [op |-> "idle"], K |-> <<>>, printed |-> <<>>, maxDepth |-> 0]

---------------------------------------------------------------------------
(* The statements the model feeds the evaluator, as S-expressions.         *)

S(xs) == LList(xs)
Y(s) == Symbol(s)
N(n) == Nat64(n)

\* Closure application, and the errors a statement can end with.
Programs ==
  [add |-> S(<< Y("add"), N(2), N(3) >>),
   unbound |-> Y("foo"),
   beginUnbound |-> S(<< Y("begin"), Y("foo") >>),
   typeMismatch |-> S(<< Y("add"), N(1), S(<< Y("nil") >>) >>),
   nonFunction |-> S(<< N(1), N(2) >>),
   factorial |->
     S(<< Y("letrec"),
          S(<< S(<< Y("f"),
                    S(<< Y("lambda"), S(<< Y("n") >>),
                         S(<< Y("cond"), S(<< Y("eq"), Y("n"), N(0) >>), N(1),
                              S(<< Y("mul"), Y("n"),
                                   S(<< Y("f"), S(<< Y("sub"), Y("n"), N(1) >>) >>) >>)
                           >>) >>) >>) >>),
          S(<< Y("f"), N(3) >>) >>),
   \* (let ((x 1) (f (lambda (y) (add x y))) (x 5)) (f 2))
   lexical |->
     S(<< Y("let"),
          S(<< S(<< Y("x"), N(1) >>),
               S(<< Y("f"), S(<< Y("lambda"), S(<< Y("y") >>),
                                 S(<< Y("add"), Y("x"), Y("y") >>) >>) >>),
               S(<< Y("x"), N(5) >>) >>),
          S(<< Y("f"), N(2) >>) >>),
   \* (let ((f (lambda (y) z)) (z 5)) (f 2))
   callerOnly |->
     S(<< Y("let"),
          S(<< S(<< Y("f"), S(<< Y("lambda"), S(<< Y("y") >>), Y("z") >>) >>),
               S(<< Y("z"), N(5) >>) >>),
          S(<< Y("f"), N(2) >>) >>),
   \* (let ((x 1) (f (lambda (y) y)) (x 2)) (f x))
   argsCaller |->
     S(<< Y("let"),
          S(<< S(<< Y("x"), N(1) >>),
               S(<< Y("f"), S(<< Y("lambda"), S(<< Y("y") >>), Y("y") >>) >>),
               S(<< Y("x"), N(2) >>) >>),
          S(<< Y("f"), Y("x") >>) >>),
   \* ((lambda (a b) a) 1)
   arity |-> S(<< S(<< Y("lambda"), S(<< Y("a"), Y("b") >>), Y("a") >>), N(1) >>)]

---------------------------------------------------------------------------
(* The state machine of the evaluator.                                     *)

\* The statements one run evaluates.
MaxStatements == 2

\* The evaluator as the interpreter threads it, at the start of a statement.
machine ==
  [pool |-> pool, globalEnv |-> globalEnv, patterns |-> patterns, rules |-> rules,
   symbolNames |-> symbolNames, nameSymbols |-> nameSymbols,
   patternNames |-> patternNames, ruleNames |-> ruleNames,
   macros |-> macros, nameMacros |-> nameMacros, argOrder |-> argOrder,
   lexerPatterns |-> lexer, parserPatterns |-> parser.patterns, parserRules |-> parser.rules,
   ran |-> {}, maxDepth |-> 0, calls |-> 0, apps |-> <<>>, primCalls |-> <<>>,
   phase |-> "none", expanded |-> nullptr]

\* The member variables as the interpreter leaves them.
install(m) ==
  /\ pool' = m.pool
  /\ globalEnv' = m.globalEnv
  /\ patterns' = m.patterns
  /\ rules' = m.rules
  /\ symbolNames' = m.symbolNames
  /\ nameSymbols' = m.nameSymbols
  /\ patternNames' = m.patternNames
  /\ ruleNames' = m.ruleNames
  /\ macros' = m.macros
  /\ nameMacros' = m.nameMacros
  /\ lexer' = m.lexerPatterns
  /\ parser' = [parser EXCEPT !.patterns = m.parserPatterns, !.rules = m.parserRules]

range_(f) == {f[i] : i \in DOMAIN f}

\* The parser can have produced the parse of x under the installed syntax: its
\* rule and pattern names are installed ones.
parsable(x) ==
  /\ {"id'"} \cup ruleNamesOf(x) \subseteq range_(ruleNames)
  /\ patternNamesOf(x) \subseteq range_(patternNames)

\* What a statement is observed to do: the outcome k with the value or the
\* error (msg, and the tree it is at), the global environment the statement
\* started with, and the interpreter's counters.
observed(name, st, m) ==
  [prog |-> name, phase |-> st.phase, k |-> st.r.k,
   v |-> IF st.r.k = "ok" THEN st.r.v
         ELSE IF st.r.k \in {"EvalError", "PartialEvalError"}
         THEN [msg |-> st.r.v.msg, at |-> reify(st.r.m.pool, st.r.v.at, ReifyDepth)]
         ELSE nullptr,
   env |-> m.globalEnv,
   ran |-> st.r.m.ran, maxDepth |-> st.r.m.maxDepth, calls |-> st.r.m.calls,
   apps |-> st.r.m.apps, primCalls |-> st.r.m.primCalls]

Init ==
  /\ argOrder \in {"ltr", "rtl"}
  /\ \E m \in {constructed(argOrder)} :
         /\ pool = m.pool
         /\ globalEnv = m.globalEnv
         /\ patterns = m.patterns
         /\ rules = m.rules
         /\ symbolNames = m.symbolNames
         /\ nameSymbols = m.nameSymbols
         /\ patternNames = m.patternNames
         /\ ruleNames = m.ruleNames
         /\ macros = m.macros
         /\ nameMacros = m.nameMacros
         /\ lexer = m.lexerPatterns
         /\ parser = [sentence |-> <<>>, forest |-> << <<>> >>,
                      patterns |-> m.parserPatterns, rules |-> m.parserRules]
  /\ nStatements = 0
  /\ last = [prog |-> "none"]
  /\ probe = [op |-> "none"]
  /\ resolving = idle

\* One statement: parseNextStatement() has parsed the text of the S-expression
\* src, and evalParsedStatement() resolves, expands and evaluates it.
EvalParsedStatement(name, src) ==
  /\ nStatements < MaxStatements
  /\ parsable(src)
  /\ \E m \in {machine} : \E st \in {evalParsedStatement(m, parseStatement(src))} :
       /\ install(st.r.m)
       /\ last' = observed(name, st, m)
  /\ nStatements' = nStatements + 1
  /\ UNCHANGED <<argOrder, probe, resolving>>

Next == \E p \in DOMAIN Programs : EvalParsedStatement(p, Programs[p])

Spec == Init /\ [][Next]_vars


---------------------------------------------------------------------------
(* Environments on their own: extend, lookup and the evaluation of a       *)
(* symbol, applied to environments of every shape a Tree* can have.        *)

\* Evaluator::eval(env, e), run to its return or to the exception it throws.
eval(m, env, e) ==
  LET s == CHOOSE t \in run(FuelBits,
               [m |-> m, c |-> [op |-> "call", f |-> "eval", env |-> env, e |-> e],
                K |-> <<>>]) : TRUE
  IN  [m |-> s.m,
       k |-> IF ~halted(s) THEN "fuel" ELSE IF s.c.op = "return" THEN "ok" ELSE s.c.k,
       v |-> IF ~halted(s) THEN nullptr ELSE s.c.v]

\* The entries of the environments the harness starts from.
MaxEnvLen == 2

\* The names looked up: a name no primitive has, the name of a primitive, and
\* a name that is never bound.
names == {"a", "add", "b"}

\* The entries of an initial environment: bindings (s v) of a or add to Unit
\* or to a number, an entry that is no list and an entry without a value.
entries ==
  {LList(<< Symbol(s), v >>) : s \in {"a", "add"}, v \in {Unit, Nat64(1)}}
    \cup {Nat64(0), LList(<< Symbol("a") >>)}

RECURSIVE sequences(_, _)
\* The sequences of at most n elements of S.
sequences(S_, n) ==
  IF n = 0 THEN {<<>>}
  ELSE {<<>>} \cup {<< x >> \o xs : x \in S_, xs \in sequences(S_, n - 1)}

\* The values extend binds: one of each variant of Tree; the Cons is the
\* environment itself or, when that is empty, Nil once more.
values ==
  {Nil, Unit, Symbol("a"), String("s"), Nat64(1), Bool(TRUE), Prim(0),
   Closure(Nil, Nil, Nil), globalEnv}

InitLookup ==
  /\ argOrder \in {"ltr", "rtl"}
  /\ \E m \in {constructed(argOrder)} : \E lit \in sequences(entries, MaxEnvLen) :
       \E env \in {alloc(m.pool, LList(lit))} :
         /\ pool = env.pool
         /\ globalEnv = env.v
         /\ patterns = m.patterns
         /\ rules = m.rules
         /\ symbolNames = m.symbolNames
         /\ nameSymbols = m.nameSymbols
         /\ patternNames = m.patternNames
         /\ ruleNames = m.ruleNames
         /\ macros = m.macros
         /\ nameMacros = m.nameMacros
         /\ lexer = m.lexerPatterns
         /\ parser = [sentence |-> <<>>, forest |-> << <<>> >>,
                      patterns |-> m.parserPatterns, rules |-> m.parserRules]
  /\ nStatements = 0
  /\ last = [prog |-> "none"]
  /\ probe = [op |-> "none"]
  /\ resolving = idle

\* env = extend(env, s, v), once in a run; the harness keeps what lookup
\* returned for every name before.
Extend(s, v) ==
  /\ probe.op = "none"
  /\ \E x \in {extend(pool, globalEnv, s, v)} :
       /\ pool' = x.pool
       /\ globalEnv' = x.v
  /\ probe' = [op |-> "extend", s |-> s, v |-> v,
               before |-> [n \in names |-> lookup(pool, globalEnv, n)]]
  /\ UNCHANGED <<patterns, rules, symbolNames, nameSymbols, patternNames, ruleNames,
                 macros, nameMacros, argOrder, nStatements, last, lexer, parser, resolving>>

\* eval(env, Symbol(s)): the harness keeps the name and how the call ended.
EvalSymbol(s) ==
  /\ probe.op # "eval"
  /\ \E m \in {machine} : \E r \in {eval(m, globalEnv, Symbol(s))} :
       /\ install(r.m)
       /\ probe' = [op |-> "eval", s |-> s, k |-> r.k,
                    v |-> IF r.k = "ok" THEN r.v ELSE [msg |-> r.v.msg, at |-> r.v.at]]
  /\ UNCHANGED <<argOrder, nStatements, last, resolving>>

NextLookup ==
  \/ \E s \in names : \E v \in values : Extend(s, v)
  \/ \E s \in names : EvalSymbol(s)

SpecLookup == InitLookup /\ [][NextLookup]_vars

---------------------------------------------------------------------------
(* Statements that change the evaluator: the global environment, a cell of *)
(* it, the macros, the syntax.                                             *)

MutationPrograms ==
  [define |-> S(<< Y("define"), Y("x"), N(5) >>),
   useX |-> Y("x"),
   unbound |-> Y("foo"),
   \* (begin (define x 5) x)
   defineThenUse |-> S(<< Y("begin"), S(<< Y("define"), Y("x"), N(5) >>), Y("x") >>),
   \* (begin (define x 5) (get_global_env))
   defineThenGet |->
     S(<< Y("begin"), S(<< Y("define"), Y("x"), N(5) >>), S(<< Y("get_global_env") >>) >>),
   \* (begin (set x 6) x)
   setThenUse |-> S(<< Y("begin"), S(<< Y("set"), Y("x"), N(6) >>), Y("x") >>),
   \* (begin (set_global_env (list (list `x 7))) (get_global_env))
   setGlobalEnv |->
     S(<< Y("begin"),
          S(<< Y("set_global_env"),
               S(<< Y("list"), S(<< Y("list"), LQuote(Y("x")), N(7) >>) >>) >>),
          S(<< Y("get_global_env") >>) >>),
   \* (begin (define_macro m (lambda (a) a)) foo)
   macroThenFail |->
     S(<< Y("begin"),
          S(<< Y("define_macro"), Y("m"),
               S(<< Y("lambda"), S(<< Y("a") >>), Y("a") >>) >>),
          Y("foo") >>),
   \* (eval `(add 1 2))
   evalQuoted |-> S(<< Y("eval"), LQuote(S(<< Y("add"), N(1), N(2) >>)) >>),
   \* (match (get_syntax) (((p (r . rs)) (begin (set_syntax p rs) (get_syntax)))))
   dropRule |->
     S(<< Y("match"), S(<< Y("get_syntax") >>),
          S(<< S(<< S(<< Y("p"), LDot(<< Y("r") >>, Y("rs")) >>),
                    S(<< Y("begin"), S(<< Y("set_syntax"), Y("p"), Y("rs") >>),
                         S(<< Y("get_syntax") >>) >>) >>) >>) >>)]

NextMutation == \E p \in DOMAIN MutationPrograms : EvalParsedStatement(p, MutationPrograms[p])

SpecMutation == Init /\ [][NextMutation]_vars

---------------------------------------------------------------------------
(* Loops: a pair of closures that call each other n times.                 *)

\* The calls of the longest loop.
MaxCalls == 8

\* The forms through which the call of the other closure is reached.
TailForms == {"cond", "begin", "let", "letrec", "match"}

\* The call (f (sub n 1)) of the other closure f: in tail position of a body
\* reached through `form`, or, as "nested", as the argument of a procedure.
recur(form, f) ==
  LET pred == S(<< Y("sub"), Y("n"), N(1) >>)
  IN  CASE form = "cond"   -> S(<< Y(f), pred >>)
        [] form = "begin"  -> S(<< Y("begin"), N(0), S(<< Y(f), pred >>) >>)
        [] form = "let"    -> S(<< Y("let"), S(<< S(<< Y("m"), pred >>) >>),
                                   S(<< Y(f), Y("m") >>) >>)
        [] form = "letrec" -> S(<< Y("letrec"), S(<< S(<< Y("m"), pred >>) >>),
                                   S(<< Y(f), Y("m") >>) >>)
        [] form = "match"  -> S(<< Y("match"), pred,
                                   S(<< S(<< Y("m"), S(<< Y(f), Y("m") >>) >>) >>) >>)
        [] form = "nested" -> S(<< Y("id"), S(<< Y(f), pred >>) >>)

\* (letrec ((even (lambda (n) (cond (eq n 0) 1 <call of odd>)))
\*          (odd (lambda (n) (cond (eq n 0) 0 <call of even>))))
\*   (even k))
loop(form, k) ==
  LET closure(zero, f) ==
        S(<< Y("lambda"), S(<< Y("n") >>),
             S(<< Y("cond"), S(<< Y("eq"), Y("n"), N(0) >>), N(zero), recur(form, f) >>) >>)
  IN  S(<< Y("letrec"),
           S(<< S(<< Y("even"), closure(1, "odd") >>),
                S(<< Y("odd"), closure(0, "even") >>) >>),
           S(<< Y("even"), N(k) >>) >>)

\* One loop in a run.
NextTail ==
  /\ nStatements = 0
  /\ \E form \in TailForms \cup {"nested"} : \E k \in 0..MaxCalls :
       EvalParsedStatement(form, loop(form, k))

SpecTail == Init /\ [][NextTail]_vars


---------------------------------------------------------------------------
(* The resolver on its own: resolve applied to the forests of a sentence   *)
(* of two tokens (a letter a or b each) under a cyclic grammar             *)
(*   pair' : _ -> x x      unit' : x -> x      leaf' : x -> a              *)
(* installed by setSyntax.  The cells are those of the Earley sets; every  *)
(* completed `unit'` and every `pair'` cell has any of the links its       *)
(* position allows (the links of `unit'` to itself are the cycle), so the  *)
(* forests run from one without a parse to ambiguous ones.                 *)

cyclicPatterns == LList(<< pattern("a'", symbol("a"), range(97, 98)) >>)

cyclicRules ==
  LList(<<
    rule("pair'", symbol("_"), << symbol("x"), symbol("x") >>),
    rule("unit'", symbol("x"), << symbol("x") >>),
    rule("leaf'", symbol("x"), << symbol("a") >>)
  >>)

\* The budgets the top-level resolve is called with.
MaxDepth == 3

cell(r, startPos, progress, links) ==
  [state |-> [startPos |-> startPos, rule |-> r, progress |-> progress], links |-> links]

link(prev, child) == [prev |-> prev, child |-> child]

\* The subsequences of xs.
subsequences(xs) ==
  {[k \in 1..Cardinality(I) |-> xs[CHOOSE i \in I : Cardinality({j \in I : j < i}) = k - 1]] :
     I \in SUBSET DOMAIN xs}

\* The forests of the sentence "a b": the cells of the three Earley sets, the
\* links of the unit' and pair' cells chosen.
forests ==
  {<< << cell(0, 0, 0, <<>>), cell(1, 0, 0, <<>>), cell(2, 0, 0, <<>>) >>,
      << cell(2, 0, 1, << link(Location(0, 2), Leaf) >>),
         cell(1, 0, 1, u1),
         cell(0, 0, 1, p1),
         cell(1, 1, 0, <<>>),
         cell(2, 1, 0, <<>>) >>,
      << cell(2, 1, 1, << link(Location(1, 4), Leaf) >>),
         cell(1, 1, 1, u2),
         cell(0, 0, 2, p2) >> >> :
     u1 \in subsequences(<< link(Location(0, 1), Location(1, 0)),
                            link(Location(0, 1), Location(1, 1)) >>),
     p1 \in subsequences(<< link(Location(0, 0), Location(1, 0)),
                            link(Location(0, 0), Location(1, 1)) >>),
     u2 \in subsequences(<< link(Location(1, 3), Location(2, 0)),
                            link(Location(1, 3), Location(2, 1)) >>),
     p2 \in subsequences(<< link(Location(1, 2), Location(2, 0)),
                            link(Location(1, 2), Location(2, 1)) >>)}

\* The evaluator after set_syntax installed the cyclic grammar.
cyclic(order) ==
  andThen(constructed(order), LAMBDA m :
    andThen(alloc(m.pool, cyclicPatterns), LAMBDA p :
      andThen(alloc(p.pool, cyclicRules), LAMBDA r :
        setSyntax([m EXCEPT !.pool = r.pool], p.v, r.v).m)))

InitResolve ==
  /\ argOrder \in {"ltr", "rtl"}
  /\ \E m \in {cyclic(argOrder)} :
       /\ pool = m.pool
       /\ globalEnv = m.globalEnv
       /\ patterns = m.patterns
       /\ rules = m.rules
       /\ symbolNames = m.symbolNames
       /\ nameSymbols = m.nameSymbols
       /\ patternNames = m.patternNames
       /\ ruleNames = m.ruleNames
       /\ macros = m.macros
       /\ nameMacros = m.nameMacros
       /\ lexer = m.lexerPatterns
       /\ \E forest \in forests :
            parser = [sentence |-> << [pattern |-> 0, lexeme |-> "a"],
                                      [pattern |-> 0, lexeme |-> "b"] >>,
                      forest |-> forest,
                      patterns |-> m.parserPatterns, rules |-> m.parserRules]
  /\ nStatements = 0
  /\ last = [prog |-> "none"]
  /\ probe = [op |-> "none"]
  /\ resolving = idle

\* What resolve reads of the evaluator and of the parser.
resolverEnv == [parser |-> parser, ruleNames |-> ruleNames, patternNames |-> patternNames]

\* resolve(maxDepth) is called.
Resolve(maxDepth) ==
  /\ resolving.c.op = "idle"
  /\ resolving' = [resolving EXCEPT !.c = [op |-> "call", f |-> "top", maxDepth |-> maxDepth],
                                    !.maxDepth = maxDepth]
  /\ UNCHANGED <<evaluatorVars, argOrder, nStatements, last, probe, lexer, parser>>

\* The resolver takes its next step.
ResolveStep ==
  /\ resolving.c.op # "idle"
  /\ ~halted(resolving)
  /\ \E s \in {resolveStep(resolverEnv, [pool |-> pool, c |-> resolving.c, K |-> resolving.K,
                                         printed |-> resolving.printed,
                                         maxDepth |-> resolving.maxDepth])} :
       /\ pool' = s.pool
       /\ resolving' = [c |-> s.c, K |-> s.K, printed |-> s.printed, maxDepth |-> s.maxDepth]
  /\ UNCHANGED <<globalEnv, patterns, rules, symbolNames, nameSymbols, patternNames, ruleNames,
                 macros, nameMacros, argOrder, nStatements, last, probe, lexer, parser>>

NextResolve ==
  \/ \E maxDepth \in 0..MaxDepth : Resolve(maxDepth)
  \/ ResolveStep

SpecResolve == InitResolve /\ [][NextResolve]_vars

\* The resolver is sequential code: a step that can be taken is taken.
SpecResolveLive == SpecResolve /\ WF_vars(ResolveStep)
---------------------------------------------------------------------------
(* Properties of closure application.                                      *)

\* The elements of the list e.
elements(p, e) == [i \in DOMAIN spine(p, e) |-> getCons(p, spine(p, e)[i]).head]

RECURSIVE boundSince(_, _, _)
\* The bindings <<name, value>> that env holds in front of base, innermost
\* first; << "none" >> when env is not base with entries in front of it.
boundSince(p, env, base) ==
  IF env = base THEN <<>>
  ELSE IF ~holds("Cons", env) THEN << "none" >>
  ELSE LET entry == getCons(p, env).head
           rest  == boundSince(p, getCons(p, env).tail, base)
       IN  IF rest = << "none" >> \/ ~holds("Cons", entry) THEN << "none" >>
           ELSE << << getCons(p, entry).head,
                      getCons(p, getCons(p, entry).tail).head >> >> \o rest

\* The bindings a flat list of formals takes from a list of parameters,
\* innermost (last formal) first.
bindingsOf(formals, params) ==
  [i \in 1..Len(formals) |-> << formals[Len(formals) + 1 - i], params[Len(formals) + 1 - i] >>]

\* A closure application of the last statement whose parameters matched: the
\* env of the body is the closure's env with the formals bound in front.
LexicalBody(a) ==
  a.matched =>
    boundSince(pool, a.body, a.cl.env)
      = bindingsOf(elements(pool, a.cl.formal), elements(pool, a.params))

\* C1: closure application is lexically scoped.  Every application of the last
\* statement that matched evaluates the body in the closure's env extended
\* with the formals bound to the evaluated arguments; one that did not match
\* ends the statement with the error "pattern matching failed" and is the
\* last application it made; the arguments are evaluated in the caller's env
\* (argsCaller yields the caller's x, 2), the body sees the closure's x
\* (lexical yields 1 + 2) and no binding of the caller alone (callerOnly
\* fails with z unbound).
C1_LexicalScope ==
  last.prog # "none" =>
    /\ \A i \in DOMAIN last.apps :
         /\ LexicalBody(last.apps[i])
         /\ ~last.apps[i].matched =>
              /\ i = Len(last.apps)
              /\ last.k = "EvalError"
              /\ last.v.msg = "pattern matching failed"
    /\ last.prog = "lexical" => last.k = "ok" /\ last.v = Nat64(3)
    /\ last.prog = "argsCaller" => last.k = "ok" /\ last.v = Nat64(2)
    /\ last.prog = "callerOnly" =>
         /\ last.k \in {"EvalError", "PartialEvalError"}
         /\ last.v = [msg |-> "unbound symbol", at |-> Symbol("z")]
    /\ last.prog = "arity" => last.apps # <<>> /\ ~last.apps[1].matched

\* A closure was applied to parameters that matched, in a caller's env that
\* is not the closure's.
C1_Witness ==
  /\ last.prog = "lexical"
  /\ last.k = "ok"
  /\ \E i \in DOMAIN last.apps : last.apps[i].matched /\ last.apps[i].env # last.apps[i].cl.env

---------------------------------------------------------------------------
(* Properties of environments.                                             *)

\* The places of env that hold a binding of s: a list whose first element is
\* the symbol s and that has a second element, the value.
bindings(p, env, s) ==
  {i \in DOMAIN spine(p, env) :
     LET entry == getCons(p, spine(p, env)[i]).head
     IN  /\ holds("Cons", entry)
         /\ getCons(p, entry).head = Symbol(s)
         /\ holds("Cons", getCons(p, entry).tail)}

\* The value of the binding at place i.
boundValue(p, env, i) ==
  getCons(p, getCons(p, getCons(p, spine(p, env)[i]).head).tail).head

\* The least element of a set of numbers.
least(I) == CHOOSE i \in I : \A j \in I : i <= j

\* How eval(env, Symbol(s)) ends when lookup finds nothing.
PrimOrUnbound(s) ==
  IF namePrims(s) # -1
  THEN probe.k = "ok" /\ probe.v = Prim(namePrims(s))
  ELSE /\ probe.k \in {"EvalError", "PartialEvalError"}
       /\ probe.v = [msg |-> "unbound symbol", at |-> Symbol(s)]

\* C2 as stated: eval(env, Symbol(s)) returns the value of a binding of s in
\* env that is not Unit whenever env holds one (the innermost such), else the
\* primitive named s, else fails with "unbound symbol"; a binding to Unit
\* counts as no binding.
C2_AnyBinding ==
  probe.op = "eval" =>
    LET nonUnit == {i \in bindings(pool, globalEnv, probe.s) :
                      boundValue(pool, globalEnv, i) # Unit}
    IN  IF nonUnit # {}
        THEN probe.k = "ok" /\ probe.v = boundValue(pool, globalEnv, least(nonUnit))
        ELSE PrimOrUnbound(probe.s)

\* C2, amended: the innermost binding of s in env decides.  If its value is
\* not Unit, eval(env, Symbol(s)) returns it; if env holds no binding of s, or
\* the innermost one is to Unit (whatever lies behind it), the result is the
\* primitive named s, or the error "unbound symbol" at s when there is none.
C2_InnermostBinding ==
  probe.op = "eval" =>
    LET bs == bindings(pool, globalEnv, probe.s)
    IN  IF bs # {} /\ boundValue(pool, globalEnv, least(bs)) # Unit
        THEN probe.k = "ok" /\ probe.v = boundValue(pool, globalEnv, least(bs))
        ELSE PrimOrUnbound(probe.s)

\* A symbol was evaluated whose innermost binding is to Unit, in front of a
\* binding to a value.
C2_Witness ==
  /\ probe.op = "eval"
  /\ LET bs == bindings(pool, globalEnv, probe.s)
     IN  /\ bs # {}
         /\ boundValue(pool, globalEnv, least(bs)) = Unit
         /\ \E i \in bs : boundValue(pool, globalEnv, i) # Unit

\* C3 as stated: after env' = extend(env, s', v), for a v of any variant,
\* lookup(env', s') returns v and lookup(env', s) returns what lookup(env, s)
\* returned for every other name s.
C3_AnyVariant ==
  probe.op = "extend" =>
    /\ lookup(pool, globalEnv, probe.s) = probe.v
    /\ \A n \in names \ {probe.s} : lookup(pool, globalEnv, n) = probe.before[n]

\* C3, amended: after env' = extend(env, s', v), lookup(env', s') returns v
\* when v is not Unit and the null pointer ("not found") when v is Unit, and
\* lookup(env', s) returns what lookup(env, s) returned for every other name.
C3_LookupShadowing ==
  probe.op = "extend" =>
    /\ lookup(pool, globalEnv, probe.s) = IF probe.v = Unit THEN nullptr ELSE probe.v
    /\ \A n \in names \ {probe.s} : lookup(pool, globalEnv, n) = probe.before[n]

\* extend has put a value that is not Unit in front of a binding of the same
\* name to another value.
C3_Witness ==
  /\ probe.op = "extend"
  /\ probe.v # Unit
  /\ probe.before[probe.s] \notin {nullptr, probe.v}

---------------------------------------------------------------------------
(* Properties of the statements that change the evaluator.                 *)

\* The last statement ended with the error "unbound symbol" at s.
Unbound(s) ==
  /\ last.k \in {"EvalError", "PartialEvalError"}
  /\ last.v = [msg |-> "unbound symbol", at |-> Symbol(s)]

\* C4 as stated: after (define x 5) has executed as an earlier element of a
\* top-level begin, the symbol x in a later element of that begin yields 5.
C4_VisibleAtOnce ==
  last.prog = "defineThenUse" => last.k = "ok" /\ last.v = Nat64(5)

\* C4, amended: what a primitive changes is in place when it returns, and
\* later evaluation in the same statement that reads it sees it.  set writes
\* the cell of the binding, which (begin (set x 6) x) then reads; after define
\* and set_global_env, get_global_env returns the new global environment in
\* the same statement; after set_syntax, get_syntax returns the new syntax;
\* define_macro has registered the macro.  But a symbol is looked up in the
\* env its evaluation was entered with, and a top-level statement is
\* evaluated in the global environment it started with (last.env): in
\* (begin (define x 5) x) the symbol x is evaluated without this definition
\* (unbound, or the value x had before), and x yields 5 from the next
\* statement on.
C4_Visibility ==
  /\ last.prog = "defineThenUse" =>
       /\ lookup(pool, globalEnv, "x") = Nat64(5)
       /\ IF lookup(pool, last.env, "x") = nullptr THEN Unbound("x")
          ELSE last.k = "ok" /\ last.v = lookup(pool, last.env, "x")
  /\ last.prog = "useX" =>
       IF lookup(pool, globalEnv, "x") = nullptr THEN Unbound("x")
       ELSE last.k = "ok" /\ last.v = lookup(pool, globalEnv, "x")
  /\ last.prog = "setThenUse" =>
       IF lookup(pool, last.env, "x") = nullptr THEN Unbound("x")
       ELSE last.k = "ok" /\ last.v = Nat64(6) /\ lookup(pool, last.env, "x") = Nat64(6)
  /\ last.prog = "defineThenGet" =>
       last.k = "ok" /\ last.v = globalEnv /\ lookup(pool, globalEnv, "x") = Nat64(5)
  /\ last.prog = "setGlobalEnv" =>
       /\ last.k = "ok" /\ last.v = globalEnv /\ lookup(pool, globalEnv, "x") = Nat64(7)
       /\ reify(pool, globalEnv, ReifyDepth)
            = LCons(LCons(Symbol("x"), LCons(Nat64(7), Nil)), Nil)
  /\ last.prog = "dropRule" =>
       /\ last.k = "ok"
       /\ getCons(pool, last.v).head = patterns
       /\ getCons(pool, getCons(pool, last.v).tail).head = rules
       /\ "nil'" \notin range_(ruleNames)
  /\ last.prog = "macroThenFail" => \E i \in DOMAIN macros : <<"m", i - 1>> \in nameMacros

\* (begin (define x 5) x) has failed with x unbound and left x defined.
C4_Witness ==
  /\ last.prog = "defineThenUse"
  /\ Unbound("x")
  /\ lookup(pool, globalEnv, "x") = Nat64(5)

\* The evaluator, and what of the arena the global environment reaches.
evaluator ==
  <<globalEnv, reify(pool, globalEnv, ReifyDepth), patterns, rules, symbolNames,
    nameSymbols, patternNames, ruleNames, macros, nameMacros, prims>>

\* A statement fails that has called none of the primitives in `mutators`.
FailsWithout(mutators) ==
  /\ nStatements' = nStatements + 1
  /\ last'.k \in {"EvalError", "PartialEvalError"}
  /\ last'.ran \cap mutators = {}

\* C5 as stated: a statement that fails and has executed none of define,
\* set_syntax, set and set_global_env leaves the global environment, the
\* grammar state, the macros and the primitives as they were.
C5_Unchanged ==
  [][FailsWithout({"define", "set_syntax", "set", "set_global_env"})
       => evaluator' = evaluator]_vars

\* C5, amended: a statement that fails and has executed none of define,
\* define_macro, set_syntax, set and set_global_env leaves the global
\* environment, the grammar state, the macros and the primitives as they were.
C5_UnchangedWithoutMutators ==
  [][FailsWithout({"define", "define_macro", "set_syntax", "set", "set_global_env"})
       => evaluator' = evaluator]_vars

\* A statement has failed without executing any of the five, with a global
\* environment that an earlier statement had changed.
C5_Witness ==
  /\ last.prog = "unbound"
  /\ last.k \in {"EvalError", "PartialEvalError"}
  /\ last.ran \cap {"define", "define_macro", "set_syntax", "set", "set_global_env"} = {}
  /\ globalEnv # Nil

\* C7 as stated: eval, set_syntax, get_syntax, set_global_env and
\* get_global_env are given their argument list as written, unevaluated.
C7_GivenUnevaluated ==
  last.prog # "none" =>
    \A i \in DOMAIN last.primCalls :
      last.primCalls[i].name
          \in {"eval", "set_syntax", "get_syntax", "set_global_env", "get_global_env"}
        => last.primCalls[i].at = "head" /\ last.primCalls[i].args = last.primCalls[i].written

\* C7, amended: the forms are lambda, cond, quote, unquote, match, let,
\* letrec, define, define_macro, set and begin, which are given the tail of
\* the application as written; every other primitive, eval, set_syntax,
\* get_syntax, set_global_env and get_global_env among them, is given what
\* evalList returned for it: (eval `(add 1 2)) evaluates the quotation to the
\* list (add 1 2) and then that list, to 3.
C7_FormsAndProcedures ==
  last.prog # "none" =>
    /\ \A i \in DOMAIN last.primCalls :
         IF last.primCalls[i].name
              \in {"lambda", "cond", "quote", "unquote", "match", "let", "letrec",
                   "define", "define_macro", "set", "begin"}
         THEN last.primCalls[i].at = "head" /\ last.primCalls[i].args = last.primCalls[i].written
         ELSE last.primCalls[i].at = "evalList"
    /\ last.prog = "evalQuoted" => last.k = "ok" /\ last.v = Nat64(3)

\* eval was called with an argument list that differs from the one written.
C7_Witness ==
  /\ last.prog = "evalQuoted"
  /\ \E i \in DOMAIN last.primCalls :
       /\ last.primCalls[i].name = "eval"
       /\ last.primCalls[i].args # last.primCalls[i].written

\* C8 as stated: the error a statement ends with is never a bare
\* PartialEvalError.
C8_AlwaysComplete ==
  last.prog # "none" => last.k # "PartialEvalError"

---------------------------------------------------------------------------
(* Properties of loops.                                                    *)

\* The invocations of eval active at once in a loop of one call, for each
\* form.
depthOfOneCall ==
  [form \in TailForms |->
     evalParsedStatement(constructed("ltr"), parseStatement(loop(form, 1))).r.m.maxDepth]

\* C6: tail calls do not grow the recursion depth.  A loop of two closures
\* that call each other in tail position, through cond, begin, let, letrec or
\* match, runs to completion for every number of calls (with the value that
\* tells whether the number is even), and the number of invocations of eval
\* active at once is never more than in the loop of one call.
C6_TailCallDepth ==
  last.prog \in TailForms =>
    /\ last.k = "ok"
    /\ last.v = Nat64(last.calls % 2)
    /\ last.maxDepth <= depthOfOneCall[last.prog]

\* A loop of MaxCalls calls (and the first one) has run in tail position.
C6_Witness ==
  /\ last.prog \in TailForms
  /\ last.calls = MaxCalls + 1
  /\ last.k = "ok"


---------------------------------------------------------------------------
(* The resolver's result policy and its termination.                       *)

RECURSIVE flatten(_)
\* The concatenation of a sequence of sequences.
flatten(ss) == IF ss = <<>> THEN <<>> ELSE ss[1] \o flatten(Tail(ss))

\* Each of hs consed onto each of ts, as literals.
cross(hs, ts) ==
  [k \in 1..(Len(hs) * Len(ts)) |->
     LCons(hs[(k - 1) \div Len(ts) + 1], ts[((k - 1) % Len(ts)) + 1])]

RECURSIVE materializations(_, _, _, _)
\* The trees of the cell at loc in front of the accumulators `right`, within
\* the depth budget d: (rule-name . right) at progress 0, and otherwise, for
\* each back-link, the trees of prev in front of each child consed onto each
\* accumulator, a child being the token (pattern-name lexeme) or a tree of the
\* child location within d - 1.
materializations(E, loc, right, d) ==
  IF d = 0 THEN <<>>
  ELSE LET c == cellAt(E.parser, loc)
       IN  IF c.state.progress = 0
           THEN [k \in DOMAIN right |->
                   LCons(Symbol(E.ruleNames[c.state.rule + 1]), right[k])]
           ELSE flatten([j \in DOMAIN c.links |->
                  andThen(IF c.links[j].child = Leaf
                          THEN << LCons(Symbol(E.patternNames[
                                           E.parser.sentence[loc.pos].pattern + 1]),
                                        LCons(String(E.parser.sentence[loc.pos].lexeme), Nil)) >>
                          ELSE materializations(E, c.links[j].child, << Nil >>, d - 1),
                          LAMBDA child :
                            materializations(E, c.links[j].prev, cross(child, right), d))])

\* The materializations of all completed start-symbol items at the sentence
\* end.
candidates(E, d) ==
  LET pos == Len(E.parser.sentence)
      row == E.parser.forest[pos + 1]
  IN  flatten([i \in DOMAIN row |->
                 IF completed(E.parser, row[i])
                 THEN materializations(E, Location(pos, i - 1), << Nil >>, d)
                 ELSE <<>>])

\* The top-level resolve has ended.
Resolved == resolving.c.op # "idle" /\ halted(resolving)

\* C9: the top-level resolve returns a tree if and only if the
\* materializations of the completed start-symbol items at the sentence end
\* are exactly one tree, and then it returns that tree; with none it fails
\* without a candidate, with several it fails after it printed every
\* candidate: it never picks one.
C9_ExactlyOneParse ==
  Resolved =>
    \A all \in {candidates(resolverEnv, resolving.maxDepth)} :
      /\ resolving.c.op = "return" <=> Len(all) = 1
      /\ resolving.c.op = "return" => reify(pool, resolving.c.v, Len(pool) + 1) = all[1]
      /\ Len(all) = 0 =>
           resolving.c = [op |-> "throw", k |-> "notimplemented"] /\ resolving.printed = <<>>
      /\ Len(all) > 1 =>
           resolving.c = [op |-> "throw", k |-> "notimplemented"] /\ resolving.printed = all

\* An ambiguous sentence was resolved: the resolver failed with several
\* candidates.
C9_Witness == Resolved /\ resolving.c.op = "throw" /\ Len(resolving.printed) > 1

\* The call the activation K[n] waits for: the next activation, or the call
\* that is being made.
callee(n) ==
  IF n < Len(resolving.K)
  THEN [loc |-> resolving.K[n + 1].loc, maxDepth |-> resolving.K[n + 1].maxDepth]
  ELSE [loc |-> resolving.c.loc, maxDepth |-> resolving.c.maxDepth]

progressAt(loc) == cellAt(parser, loc).state.progress

\* Every activation that waits for a call to return: the top level and a step
\* to prev hand the budget on, a descent into a child hands on one less, and
\* the cell of a step to prev has progress one less.
BudgetDiscipline ==
  \A n \in DOMAIN resolving.K :
    (n < Len(resolving.K) \/ resolving.c.op = "call") =>
      LET fr == resolving.K[n]
      IN  /\ fr.maxDepth > 0 \/ fr.f = "top"
          /\ fr.f = "top" => callee(n).maxDepth = fr.maxDepth
          /\ fr.f = "resolve" /\ fr.at = "child" =>
               /\ callee(n).maxDepth = fr.maxDepth - 1
               /\ callee(n).loc = cellAt(parser, fr.loc).links[fr.j].child
          /\ fr.f = "resolve" /\ fr.at = "prev" =>
               /\ callee(n).maxDepth = fr.maxDepth
               /\ callee(n).loc = cellAt(parser, fr.loc).links[fr.j].prev
               /\ progressAt(callee(n).loc) = progressAt(fr.loc) - 1

\* A call of resolve with maxDepth 0 returns no trees, at once.
ZeroBudget ==
  resolving.c.op = "call" /\ resolving.c.f = "resolve" /\ resolving.c.maxDepth = 0 =>
    /\ resolving'.c = [op |-> "return", v |-> <<>>]
    /\ resolving'.K = resolving.K
    /\ pool' = pool

\* The top-level resolve has ended, and not because the stack was exhausted.
Finished == Resolved /\ resolving.c # [op |-> "throw", k |-> "stack overflow"]

\* C10: a resolve that has a call of resolve(loc, right, maxDepth) to make
\* ends with every call returned, whatever the child links of the forest are
\* (each prev cell has progress one less than the cell it is the prev of): a
\* descent into a child location has a budget of one less, a step to prev has
\* the same budget, and a call with maxDepth 0 returns no trees.
C10_Terminates ==
  /\ []BudgetDiscipline
  /\ [][ZeroBudget]_vars
  /\ (resolving.c.op = "call") ~> Finished

\* A call of resolve with no budget left for a cell that an activation on the
\* stack is resolving: the walk went round a cycle of child links.
C10_Witness ==
  /\ resolving.c.op = "call" /\ resolving.c.f = "resolve" /\ resolving.c.maxDepth = 0
  /\ \E n \in DOMAIN resolving.K :
       resolving.K[n].f = "resolve" /\ resolving.K[n].loc = resolving.c.loc

---------------------------------------------------------------------------
(* The shape of the trees the resolver builds.                             *)

RECURSIVE items(_)
\* The elements of a list literal, and whether it ends in Nil.
items(t) == IF t.t = "LCons" THEN << t.head >> \o items(t.tail) ELSE <<>>

RECURSIVE proper(_)
proper(t) == t = Nil \/ (t.t = "LCons" /\ proper(t.tail))

\* The index of a name in a table, 0 when it is not there.
indexOf(table, name) ==
  IF \E i \in DOMAIN table : table[i] = name
  THEN CHOOSE i \in DOMAIN table : table[i] = name ELSE 0

\* t is the two-element list (pattern-name lexeme).
TokenLeaf(t) ==
  /\ proper(t) /\ Len(items(t)) = 2
  /\ items(t)[1].t = "Symbol" /\ indexOf(patternNames, items(t)[1].val) > 0
  /\ items(t)[2].t = "String"

RECURSIVE Shaped(_)
\* t is (rule-name child1 ... childN), N the length of the rule of that name,
\* every child a token leaf or a tree of this shape.
Shaped(t) ==
  /\ proper(t) /\ t # Nil
  /\ items(t)[1].t = "Symbol" /\ indexOf(ruleNames, items(t)[1].val) > 0
  /\ Len(items(t)) = 1 + parser.rules[indexOf(ruleNames, items(t)[1].val)].len
  /\ \A k \in 2..Len(items(t)) : TokenLeaf(items(t)[k]) \/ Shaped(items(t)[k])

RECURSIVE yield(_)
\* The lexemes of the token leaves of a tree, read from left to right.
yield(t) ==
  IF t.t = "String" THEN << t.val >>
  ELSE IF t.t = "LCons" THEN yield(t.head) \o yield(t.tail)
  ELSE <<>>

\* A call of resolve for a completed item returns: the item it was made for
\* (a child location, or the cell the top-level resolve chose).
returnsFor ==
  LET fr == resolving.K[Len(resolving.K)]
  IN  IF fr.f = "top" THEN Location(Len(parser.sentence), fr.i - 1)
      ELSE cellAt(parser, fr.loc).links[fr.j].child

ReturnsItem ==
  /\ resolving.c.op = "return" /\ resolving.K # <<>>
  /\ resolving.K[Len(resolving.K)].f = "top" \/ resolving.K[Len(resolving.K)].at = "child"

\* C11: every tree resolve returns for a completed item is (rule-name child1
\* ... childN) with the name of the item's rule and N the length of the rule's
\* right-hand side, the children in the order of the sentence: a token leaf is
\* (pattern-name lexeme) of the token that ends where the child ends, a
\* location child is a tree of this shape, so that the lexemes of the tree
\* read from left to right are the tokens the item spans.
C11_TreeShape ==
  ReturnsItem =>
    \A k \in DOMAIN resolving.c.v :
      \A t \in {reify(pool, resolving.c.v[k], Len(pool) + 1)} :
        LET state == cellAt(parser, returnsFor).state
        IN  /\ Shaped(t)
            /\ items(t)[1] = Symbol(ruleNames[state.rule + 1])
            /\ yield(t) = [i \in 1..(returnsFor.pos - state.startPos) |->
                             parser.sentence[state.startPos + i].lexeme]

\* The top-level resolve got a tree of two tokens whose first child is itself
\* the tree of a unit' item.
C11_Witness ==
  /\ ReturnsItem /\ resolving.K[Len(resolving.K)].f = "top"
  /\ \E k \in DOMAIN resolving.c.v :
       \E t \in {reify(pool, resolving.c.v[k], Len(pool) + 1)} :
         /\ Len(items(t)) = 3
         /\ items(items(t)[2])[1] = Symbol("unit'")
         /\ yield(t) = << "a", "b" >>
---------------------------------------------------------------------------
(* setSyntax called again and again, with well-formed and with malformed   *)
(* pattern and rule lists.                                                 *)

\* The calls of setSyntax one run makes.
MaxSyntaxCalls == 2

\* The pattern lists setSyntax is called with: the last two are malformed (a
\* pattern the lexer has no constructor for, a precedence that is no number).
SyntaxPatterns ==
  << << pattern("a'", symbol("a"), range(97, 98)) >>,
     << pattern("b'", symbol("b"), chars("b")),
        pattern("_", symbol("_"), chars(" ")),
        pattern("b'", symbol("c"), word("bb")) >>,
     << pattern("d'", symbol("d"), chars("d")),
        pattern("e'", symbol("e"), LList(<< Symbol("back") >>)) >>,
     << pattern("f'", symbol("f"), chars("f")),
        LList(<< Symbol("g'"), LList(<< Symbol("g"), String("0") >>), chars("g") >>) >> >>

\* The rule lists: the last one is malformed (a right-hand side of a bare
\* symbol).
SyntaxRules ==
  << << rule("top'", symbol("_"), << symbol("a") >>) >>,
     << rule("one'", symbol("_"), << symbol("x") >>),
        rule("two'", symbol("x"), << symbol("b"), symbol("x") >>),
        rule("nil'", symbol("x"), << >>) >>,
     << >>,
     << rule("h'", symbol("h"), << symbol("a") >>),
        LList(<< Symbol("i'"), symbol("i"), LList(<< Symbol("a") >>) >>) >> >>

\* setSyntax(p, r), the trees of the i-th pattern list and the j-th rule list;
\* the harness keeps the lists, how the call ended, and the same of the call
\* before.  After `unreachable` or `notimplemented` the program is over.
SetSyntax(i, j) ==
  /\ nStatements < MaxSyntaxCalls
  /\ probe.op = "setSyntax" => probe.k \notin {"unreachable", "notimplemented"}
  /\ \E p \in {alloc(pool, LList(SyntaxPatterns[i]))} :
       \E r \in {alloc(p.pool, LList(SyntaxRules[j]))} :
         \E x \in {setSyntax([machine EXCEPT !.pool = r.pool], p.v, r.v)} :
           /\ install(x.m)
           /\ probe' = [op |-> "setSyntax", k |-> x.k,
                        p |-> SyntaxPatterns[i], r |-> SyntaxRules[j], pv |-> p.v, rv |-> r.v,
                        prev |-> IF probe.op = "setSyntax"
                                 THEN [k |-> probe.k, p |-> probe.p, r |-> probe.r]
                                 ELSE [k |-> "none"]]
  /\ nStatements' = nStatements + 1
  /\ UNCHANGED <<argOrder, last, resolving>>

NextSyntax == \E i \in DOMAIN SyntaxPatterns : \E j \in DOMAIN SyntaxRules : SetSyntax(i, j)

SpecSyntax == Init /\ [][NextSyntax]_vars

\* The names of the entries of a list of patterns or rules, in order.
entryNames(entries_) == [k \in DOMAIN entries_ |-> entries_[k].xs[1].val]

\* The name of the symbol on the left-hand side of an entry.
entrySymbol(entry) == entry.xs[2].xs[1].val

\* The names of the symbols the entries of the two lists mention: "_" on a
\* left-hand side is the ignored or the start symbol, no interned one.
mentioned(ps, rs) ==
  (({entrySymbol(ps[k]) : k \in DOMAIN ps} \cup {entrySymbol(rs[k]) : k \in DOMAIN rs}) \ {"_"})
    \cup UNION {{rs[k].xs[3].xs[n].xs[1].val : n \in DOMAIN rs[k].xs[3].xs} : k \in DOMAIN rs}

\* The last call of setSyntax succeeded.
Installed == probe.op = "setSyntax" /\ probe.k = "ok"

\* C12: after setSyntax succeeds, whatever the calls before it installed or
\* left half-installed, the tables are those of this call alone: patternNames
\* and ruleNames are the names of the entries of its two arguments in order,
\* the lexer and the parser hold one entry per pattern and per rule, each
\* under the ID that is its index, symbolNames starts with "_" and "_", and
\* every other interned symbol is one this call's arguments mention.
C12_LastCallOnly ==
  Installed =>
    /\ patternNames = entryNames(probe.p)
    /\ ruleNames = entryNames(probe.r)
    /\ patterns = probe.pv /\ rules = probe.rv
    /\ Len(lexer) = Len(patternNames) /\ Len(parser.patterns) = Len(patternNames)
    /\ Len(parser.rules) = Len(ruleNames)
    /\ \A k \in DOMAIN patternNames : lexer[k].id = k - 1 /\ parser.patterns[k].id = k - 1
    /\ \A k \in DOMAIN ruleNames :
         /\ parser.rules[k].id = k - 1
         /\ parser.rules[k].len = Len(probe.r[k].xs[3].xs)
    /\ Len(symbolNames) >= 2 /\ symbolNames[1] = "_" /\ symbolNames[2] = "_"
    /\ {symbolNames[k] : k \in 3..Len(symbolNames)} = mentioned(probe.p, probe.r)
    /\ nameSymbols = {<< symbolNames[k], k - 1 >> : k \in 3..Len(symbolNames)}

\* A call succeeds after a successful call that installed other patterns and
\* other rules, more of each.
C12_Witness ==
  /\ Installed
  /\ probe.prev.k = "ok"
  /\ Len(probe.prev.p) > Len(probe.p) /\ Len(probe.p) > 0
  /\ Len(probe.prev.r) > Len(probe.r) /\ Len(probe.r) > 0

---------------------------------------------------------------------------
(* quasiquote and eval on their own: quasiquote applied to a tree, and     *)
(* eval applied to what it returned, in environments that bind, shadow or  *)
(* leave unbound the names the tree mentions.                              *)

\* Evaluator::quasiquote(env, e), run to its return or to the exception it
\* throws.
quasiquote(m, env, e) ==
  LET s == CHOOSE t \in run(FuelBits,
               [m |-> m, c |-> [op |-> "call", f |-> "quasiquote", env |-> env, e |-> e],
                K |-> <<>>]) : TRUE
  IN  [m |-> s.m,
       k |-> IF ~halted(s) THEN "fuel" ELSE IF s.c.op = "return" THEN "ok" ELSE s.c.k,
       v |-> IF ~halted(s) THEN nullptr ELSE s.c.v]

\* The environments: empty, a bound to a number, a bound to the symbol a, and
\* add (the name of a primitive) bound to a number.
QuasiEnvs ==
  { << >>,
    << LList(<< Symbol("a"), Nat64(1) >>) >>,
    << LList(<< Symbol("a"), Symbol("a") >>) >>,
    << LList(<< Symbol("add"), Nat64(2) >>), LList(<< Symbol("a"), Unit >>) >> }

\* The trees: one of each variant a program can write, applications, and
\* trees with unquote in them (as the head of the tree, of an element, and of
\* a tail).
QuasiTrees ==
  { Nil, Unit, Nat64(1), String("s"), Bool(TRUE), Symbol("a"), Symbol("b"), Symbol("add"),
    LList(<< Symbol("a"), Nat64(1) >>),
    LList(<< Symbol("quote"), Symbol("a") >>),
    LList(<< Symbol("add"), Nat64(1), Nat64(2) >>),
    LList(<< Nat64(1), Nat64(2) >>),
    dotted(<< Symbol("a") >>, Symbol("unquote")),
    LList(<< Symbol("unquote"), Symbol("a") >>),
    LList(<< Nat64(1), LList(<< Symbol("unquote"), Symbol("a") >>) >>),
    LList(<< Nat64(1), Symbol("unquote"), Symbol("a") >>) }

InitQuasi ==
  /\ argOrder \in {"ltr", "rtl"}
  /\ \E m \in {constructed(argOrder)} : \E lit \in QuasiEnvs : \E t \in QuasiTrees :
       \E env \in {alloc(m.pool, LList(lit))} : \E x \in {alloc(env.pool, t)} :
         /\ pool = x.pool
         /\ globalEnv = env.v
         /\ patterns = m.patterns
         /\ rules = m.rules
         /\ symbolNames = m.symbolNames
         /\ nameSymbols = m.nameSymbols
         /\ patternNames = m.patternNames
         /\ ruleNames = m.ruleNames
         /\ macros = m.macros
         /\ nameMacros = m.nameMacros
         /\ lexer = m.lexerPatterns
         /\ parser = [sentence |-> <<>>, forest |-> << <<>> >>,
                      patterns |-> m.parserPatterns, rules |-> m.parserRules]
         /\ probe = [op |-> "none", t |-> x.v]
  /\ nStatements = 0
  /\ last = [prog |-> "none"]
  /\ resolving = idle

\* q = quasiquote(env, t)
Quasiquote ==
  /\ probe.op = "none"
  /\ \E r \in {quasiquote(machine, globalEnv, probe.t)} :
       /\ install(r.m)
       /\ probe' = [op |-> "quasiquote", t |-> probe.t, k |-> r.k,
                    q |-> IF r.k = "ok" THEN r.v ELSE nullptr]
  /\ UNCHANGED <<argOrder, nStatements, last, resolving>>

\* eval(env, q)
EvalQuasiquoted ==
  /\ probe.op = "quasiquote"
  /\ probe.k = "ok"
  /\ \E r \in {eval(machine, globalEnv, probe.q)} :
       /\ install(r.m)
       /\ probe' = [op |-> "eval", t |-> probe.t, q |-> probe.q, k |-> r.k,
                    v |-> IF r.k = "ok" THEN r.v ELSE nullptr]
  /\ UNCHANGED <<argOrder, nStatements, last, resolving>>

NextQuasi == Quasiquote \/ EvalQuasiquoted

SpecQuasi == InitQuasi /\ [][NextQuasi]_vars

RECURSIVE hasUnquote(_, _)
\* The tree has a Cons whose head is the symbol unquote.
hasUnquote(p, e) ==
  /\ holds("Cons", e)
  /\ \/ getCons(p, e).head = Symbol("unquote")
     \/ hasUnquote(p, getCons(p, e).head)
     \/ hasUnquote(p, getCons(p, e).tail)

\* C13 as stated: for a tree t without a Cons headed by unquote,
\* eval(env, quasiquote(env, t)) returns a tree structurally equal to t.
C13_RoundTrip ==
  probe.op = "eval" /\ ~hasUnquote(pool, probe.t) =>
    probe.k = "ok" /\ treeEq(pool, probe.v, probe.t)

\* C13, amended: for a tree t without a Cons headed by unquote,
\* quasiquote(env, t) returns t itself; eval of it returns a tree structurally
\* equal to t when t is neither a Symbol nor a Cons.
C13_QuasiquoteIdentity ==
  probe.op # "none" /\ ~hasUnquote(pool, probe.t) =>
    /\ probe.k # "fuel"
    /\ probe.op = "quasiquote" => probe.k = "ok" /\ probe.q = probe.t
    /\ probe.op = "eval" /\ probe.t.t \notin {"Symbol", "Cons"} =>
         probe.k = "ok" /\ treeEq(pool, probe.v, probe.t)

\* quasiquote has returned a list without unquote whose first element is a
\* bound name, and eval has taken the list for an application.
C13_Witness ==
  /\ probe.op = "eval"
  /\ ~hasUnquote(pool, probe.t)
  /\ holds("Cons", probe.t)
  /\ head(machine, probe.t) = Symbol("a")
  /\ probe.q = probe.t
  /\ probe.k = "EvalError"

---------------------------------------------------------------------------
(* Statements that bind names locally: letrec and let.                     *)

\* (lambda formal body)
Lam(formal, body) == S(<< Y("lambda"), S(formal), body >>)

LetPrograms ==
  [\* (letrec ((even (lambda (n) (cond (eq n 0) 1 (odd (sub n 1)))))
   \*          (odd (lambda (n) (cond (eq n 0) 0 (even (sub n 1))))))
   \*   (even 3))
   evenOdd |->
     S(<< Y("letrec"),
          S(<< S(<< Y("even"),
                    Lam(<< Y("n") >>,
                        S(<< Y("cond"), S(<< Y("eq"), Y("n"), N(0) >>), N(1),
                             S(<< Y("odd"), S(<< Y("sub"), Y("n"), N(1) >>) >>) >>)) >>),
               S(<< Y("odd"),
                    Lam(<< Y("n") >>,
                        S(<< Y("cond"), S(<< Y("eq"), Y("n"), N(0) >>), N(0),
                             S(<< Y("even"), S(<< Y("sub"), Y("n"), N(1) >>) >>) >>)) >>) >>),
          S(<< Y("even"), N(3) >>) >>),
   \* (letrec ((f (lambda () b)) (b 2) (g (lambda () b))) f)
   recClosure |->
     S(<< Y("letrec"),
          S(<< S(<< Y("f"), Lam(<< >>, Y("b")) >>), S(<< Y("b"), N(2) >>),
               S(<< Y("g"), Lam(<< >>, Y("b")) >>) >>),
          Y("f") >>),
   \* (letrec ((a 1) (b (add a 1)) (c (add b 1))) c)
   recInOrder |->
     S(<< Y("letrec"),
          S(<< S(<< Y("a"), N(1) >>), S(<< Y("b"), S(<< Y("add"), Y("a"), N(1) >>) >>),
               S(<< Y("c"), S(<< Y("add"), Y("b"), N(1) >>) >>) >>),
          Y("c") >>),
   \* (letrec ((a b) (b 1)) a)
   recForward |->
     S(<< Y("letrec"), S(<< S(<< Y("a"), Y("b") >>), S(<< Y("b"), N(1) >>) >>), Y("a") >>),
   \* (let ((b 7)) (letrec ((a b) (b 1)) a))
   recForwardShadow |->
     S(<< Y("let"), S(<< S(<< Y("b"), N(7) >>) >>),
          S(<< Y("letrec"), S(<< S(<< Y("a"), Y("b") >>), S(<< Y("b"), N(1) >>) >>),
               Y("a") >>) >>),
   \* (letrec ((a a)) a)
   recSelf |-> S(<< Y("letrec"), S(<< S(<< Y("a"), Y("a") >>) >>), Y("a") >>),
   \* (letrec ((a (add 4 5)) (add 1)) a)
   recForwardPrim |->
     S(<< Y("letrec"),
          S(<< S(<< Y("a"), S(<< Y("add"), N(4), N(5) >>) >>), S(<< Y("add"), N(1) >>) >>),
          Y("a") >>),
   \* (let ((x 1) (y (add x 1)) (x (add y 1))) (add x y))
   letInOrder |->
     S(<< Y("let"),
          S(<< S(<< Y("x"), N(1) >>), S(<< Y("y"), S(<< Y("add"), Y("x"), N(1) >>) >>),
               S(<< Y("x"), S(<< Y("add"), Y("y"), N(1) >>) >>) >>),
          S(<< Y("add"), Y("x"), Y("y") >>) >>),
   \* (let ((f (lambda () z)) (z 5)) (f))
   letForward |->
     S(<< Y("let"), S(<< S(<< Y("f"), Lam(<< >>, Y("z")) >>), S(<< Y("z"), N(5) >>) >>),
          S(<< Y("f") >>) >>),
   \* (let ((z 1)) (let ((f (lambda () z)) (z 5)) (f)))
   letForwardOuter |->
     S(<< Y("let"), S(<< S(<< Y("z"), N(1) >>) >>),
          S(<< Y("let"), S(<< S(<< Y("f"), Lam(<< >>, Y("z")) >>), S(<< Y("z"), N(5) >>) >>),
               S(<< Y("f") >>) >>) >>),
   \* (let ((f (lambda () z)) (z 5)) f)
   letClosure |->
     S(<< Y("let"), S(<< S(<< Y("f"), Lam(<< >>, Y("z")) >>), S(<< Y("z"), N(5) >>) >>),
          Y("f") >>)]

NextLet == \E p \in DOMAIN LetPrograms : EvalParsedStatement(p, LetPrograms[p])

SpecLet == Init /\ [][NextLet]_vars

\* The last statement was the program prog and returned v.
Returned(prog, v) == last.prog = prog /\ last.k = "ok" /\ last.v = v

\* The last statement was the program prog and failed: s is unbound.
FailedUnbound(prog, s) == last.prog = prog /\ Unbound(s)

\* C14: letrec binds every name to the Unit placeholder, then evaluates the
\* right-hand sides in order and writes each value into the cell of its name.
\* A closure made in a right-hand side has, after the definitions, every name
\* of the letrec bound to its final value in its environment, the later ones
\* and its own included (even and odd call each other; f, returned from the
\* letrec, finds b, g and itself); a right-hand side reads the values of the
\* earlier names; and a name read before its own right-hand side was
\* evaluated is unbound: "unbound symbol", also when the name is bound outside
\* the letrec, and the primitive when it is the name of one.
C14_Letrec ==
  /\ last.prog = "evenOdd" => Returned("evenOdd", Nat64(0))
  /\ last.prog = "recInOrder" => Returned("recInOrder", Nat64(3))
  /\ last.prog = "recClosure" =>
       /\ last.k = "ok" /\ holds("Closure", last.v)
       /\ lookup(pool, last.v.env, "b") = Nat64(2)
       /\ lookup(pool, last.v.env, "f") = last.v
       /\ holds("Closure", lookup(pool, last.v.env, "g"))
       /\ lookup(pool, last.v.env, "g").env = last.v.env
  /\ last.prog = "recForward" => FailedUnbound("recForward", "b")
  /\ last.prog = "recForwardShadow" => FailedUnbound("recForwardShadow", "b")
  /\ last.prog = "recSelf" => FailedUnbound("recSelf", "a")
  /\ last.prog = "recForwardPrim" => Returned("recForwardPrim", Nat64(9))

\* even and odd have called each other down to 0, through the cells letrec
\* wrote after both closures were made.
C14_Witness == Returned("evenOdd", Nat64(0)) /\ last.calls >= 4

\* C15 as stated: let evaluates each right-hand side in the environment that
\* holds the earlier definitions of the same let, and a lambda made in an
\* earlier right-hand side sees, when the body calls it, the value of a name
\* the same let defines later.
C15_ForwardReferences ==
  /\ last.prog = "letInOrder" => Returned("letInOrder", Nat64(5))
  /\ last.prog = "letForward" => Returned("letForward", Nat64(5))
  /\ last.prog = "letForwardOuter" => Returned("letForwardOuter", Nat64(5))

\* C15, amended: let is sequential and binds nothing in advance.  Each
\* right-hand side is evaluated in the environment that holds the earlier
\* definitions of the same let; a lambda made in an earlier right-hand side
\* captures the environment without the later definitions, so that a name the
\* same let defines later is, when the body calls the lambda, what it is
\* outside the let: unbound, or the outer binding.
C15_Sequential ==
  /\ last.prog = "letInOrder" => Returned("letInOrder", Nat64(5))
  /\ last.prog = "letForward" => FailedUnbound("letForward", "z")
  /\ last.prog = "letForwardOuter" => Returned("letForwardOuter", Nat64(1))
  /\ last.prog = "letClosure" =>
       /\ last.k = "ok" /\ holds("Closure", last.v)
       /\ lookup(pool, last.v.env, "z") = lookup(pool, last.env, "z")
       /\ lookup(pool, last.v.env, "f") = lookup(pool, last.env, "f")

\* The body of a let has called a lambda of an earlier definition that names
\* a later one, and the name was unbound.
C15_Witness == FailedUnbound("letForward", "z") /\ last.calls >= 1

---------------------------------------------------------------------------
(* Statements that match: clauses that fail, part-way or at once, before   *)
(* the one that is selected.                                               *)

\* (match target (clause ...))
Match(target, clauses) == S(<< Y("match"), target, S(clauses) >>)

\* (list 1 2)
OneTwo == S(<< Y("list"), N(1), N(2) >>)

MatchPrograms ==
  [\* (match (list 1 2) (((x . rest) x)))
   first |-> Match(OneTwo, << S(<< LDot(<< Y("x") >>, Y("rest")), Y("x") >>) >>),
   \* (match 1 ((a (add a 5)) (b 7)))
   inOrder |-> Match(N(1), << S(<< Y("a"), S(<< Y("add"), Y("a"), N(5) >>) >>),
                              S(<< Y("b"), N(7) >>) >>),
   \* (match (list 1 2) (((x 3) x) ((y z) (add y z))))
   second |-> Match(OneTwo, << S(<< S(<< Y("x"), N(3) >>), Y("x") >>),
                               S(<< S(<< Y("y"), Y("z") >>),
                                    S(<< Y("add"), Y("y"), Y("z") >>) >>) >>),
   \* (match (list 1 2) (((x 3) x) ((y z) x)))
   partial |-> Match(OneTwo, << S(<< S(<< Y("x"), N(3) >>), Y("x") >>),
                                S(<< S(<< Y("y"), Y("z") >>), Y("x") >>) >>),
   \* (let ((x 9)) (match (list 1 2) (((x 3) x) ((y z) x))))
   partialOuter |->
     S(<< Y("let"), S(<< S(<< Y("x"), N(9) >>) >>),
          Match(OneTwo, << S(<< S(<< Y("x"), N(3) >>), Y("x") >>),
                           S(<< S(<< Y("y"), Y("z") >>), Y("x") >>) >>) >>),
   \* (match (list 1 2) (((x 3) x) ((y z) (lambda () y))))
   bodyEnv |-> Match(OneTwo, << S(<< S(<< Y("x"), N(3) >>), Y("x") >>),
                                S(<< S(<< Y("y"), Y("z") >>), Lam(<< >>, Y("y")) >>) >>),
   \* (match (add 1 1) ((2 (add 4 5))))
   evaluated |-> Match(S(<< Y("add"), N(1), N(1) >>),
                       << S(<< N(2), S(<< Y("add"), N(4), N(5) >>) >>) >>),
   \* (match (list 1 2) (((x 3) x) ((y) y) (1 0)))
   nonexhaustive |-> Match(OneTwo, << S(<< S(<< Y("x"), N(3) >>), Y("x") >>),
                                      S(<< S(<< Y("y") >>), Y("y") >>),
                                      S(<< N(1), N(0) >>) >>),
   \* (match 1 ())
   noClauses |-> Match(N(1), << >>)]

NextMatch == \E p \in DOMAIN MatchPrograms : EvalParsedStatement(p, MatchPrograms[p])

SpecMatch == Init /\ [][NextMatch]_vars

\* The last statement was the program prog and failed in a match form: no
\* clause matched.
Nonexhaustive(prog) ==
  /\ last.prog = prog
  /\ last.k = "EvalError"
  /\ last.v.msg = "nonexhaustive patterns"

\* C16: match evaluates the target, tries the clauses in order and goes on
\* with the body of the first clause whose pattern matches, in the env of the
\* form extended with the bindings of that pattern and nothing else: what a
\* clause bound before its match failed is not there (x is unbound in the
\* body of the second clause, or is the x outside the form; the env a lambda
\* of the body captures is the global one with y and z on top).  When no
\* clause matches, the form fails with "nonexhaustive patterns".
C16_Match ==
  /\ last.prog = "first" => Returned("first", Nat64(1))
  /\ last.prog = "inOrder" => Returned("inOrder", Nat64(6))
  /\ last.prog = "evaluated" => Returned("evaluated", Nat64(9))
  /\ last.prog = "second" => Returned("second", Nat64(3))
  /\ last.prog = "partial" =>
       IF lookup(pool, last.env, "x") = nullptr THEN FailedUnbound("partial", "x")
       ELSE Returned("partial", lookup(pool, last.env, "x"))
  /\ last.prog = "partialOuter" => Returned("partialOuter", Nat64(9))
  /\ last.prog = "bodyEnv" =>
       /\ last.k = "ok" /\ holds("Closure", last.v)
       /\ holds("Cons", last.v.env) /\ holds("Cons", tail(machine, last.v.env))
       /\ tail(machine, tail(machine, last.v.env)) = last.env
       /\ lookup(pool, last.v.env, "y") = Nat64(1)
       /\ lookup(pool, last.v.env, "z") = Nat64(2)
  /\ last.prog = "nonexhaustive" => Nonexhaustive("nonexhaustive")
  /\ last.prog = "noClauses" => Nonexhaustive("noClauses")

\* The second clause was selected after the first one had bound x and then
\* failed, and its body did not find x.
C16_Witness == FailedUnbound("partial", "x")

---------------------------------------------------------------------------
(* beginList on its own, applied to lists of every shape: proper ones,     *)
(* ones that end in something else than Nil, and trees that are no lists.  *)

\* Evaluator::beginList(env, e), run to its return or to the exception it
\* throws.
beginList(m, env, e) ==
  LET s == CHOOSE t \in run(FuelBits,
               [m |-> m, c |-> [op |-> "call", f |-> "beginList", env |-> env, e |-> e],
                K |-> <<>>]) : TRUE
  IN  [m |-> s.m,
       k |-> IF ~halted(s) THEN "fuel" ELSE IF s.c.op = "return" THEN "ok" ELSE s.c.k,
       v |-> IF ~halted(s) THEN nullptr ELSE s.c.v]

\* (id k): an element whose evaluation is a call of the primitive id.
Id(k) == S(<< Y("id"), N(k) >>)

\* The environments: empty, and b bound.
BeginEnvs ==
  { << >>, << LList(<< Symbol("b"), Nat64(1) >>) >>,
    << LList(<< Symbol("a"), Nat64(1) >>) >>,
    << LList(<< Symbol("b"), Nat64(2) >>), LList(<< Symbol("a"), Nat64(1) >>) >> }

\* The trees beginList is applied to.  The symbol b in a list is an element
\* whose evaluation can fail.
BeginLists ==
  { S(<< >>), S(<< Id(1) >>), S(<< Id(1), Id(2) >>), S(<< Id(1), Id(2), Id(3) >>),
    S(<< Id(1), Id(1), Id(1), Id(4) >>),
    S(<< Y("b") >>), S(<< Id(1), Y("b"), Id(3), Id(4) >>),
    dotted(<< Id(1) >>, N(0)), dotted(<< Id(1), Id(2) >>, Y("b")),
    dotted(<< Id(1), Id(2), Id(3) >>, Unit),
    N(5), Y("b"), Unit, String("s") }

InitBegin ==
  /\ argOrder \in {"ltr", "rtl"}
  /\ \E m \in {constructed(argOrder)} : \E lit \in BeginEnvs : \E t \in BeginLists :
       \E env \in {alloc(m.pool, LList(lit))} : \E x \in {alloc(env.pool, t)} :
         /\ pool = x.pool
         /\ globalEnv = env.v
         /\ patterns = m.patterns
         /\ rules = m.rules
         /\ symbolNames = m.symbolNames
         /\ nameSymbols = m.nameSymbols
         /\ patternNames = m.patternNames
         /\ ruleNames = m.ruleNames
         /\ macros = m.macros
         /\ nameMacros = m.nameMacros
         /\ lexer = m.lexerPatterns
         /\ parser = [sentence |-> <<>>, forest |-> << <<>> >>,
                      patterns |-> m.parserPatterns, rules |-> m.parserRules]
         /\ probe = [op |-> "none", lit |-> t, e |-> x.v]
  /\ nStatements = 0
  /\ last = [prog |-> "none"]
  /\ resolving = idle

\* beginList(env, e); the harness keeps how the call ended and, for every
\* call of a primitive it made, in order, the argument list as written.
BeginList ==
  /\ probe.op = "none"
  /\ \E r \in {beginList(machine, globalEnv, probe.e)} :
       /\ install(r.m)
       /\ probe' = [op |-> "beginList", lit |-> probe.lit, e |-> probe.e, k |-> r.k,
                    v |-> IF r.k = "ok" THEN r.v ELSE r.v.msg,
                    evaluated |-> [i \in DOMAIN r.m.primCalls |-> r.m.primCalls[i].written]]
  /\ UNCHANGED <<argOrder, nStatements, last, resolving>>

NextBegin == BeginList

SpecBegin == InitBegin /\ [][NextBegin]_vars

\* The argument lists of the calls of id among the first n elements of the
\* list at e, in order.
writtenBefore(e, n) ==
  LET apps_ == SelectSeq(SubSeq(elements(pool, e), 1, n), LAMBDA x : holds("Cons", x))
  IN  [k \in DOMAIN apps_ |-> getCons(pool, apps_[k]).tail]

\* The first element of the list at e that is the symbol b, or 0.
firstFailing(e) ==
  LET is == {k \in DOMAIN elements(pool, e) : elements(pool, e)[k] = Symbol("b")}
  IN  IF is = {} THEN 0 ELSE CHOOSE k \in is : \A j \in is : k <= j

\* C17: beginList, on a proper list of n >= 1 elements, evaluates the first
\* n - 1 elements, each once, from left to right, in env, and returns the
\* n-th as it is, unevaluated (unless the evaluation of an element fails: the
\* elements before it have been evaluated, and beginList fails as the element
\* did); on Nil it evaluates nothing and returns Unit; on a list whose last
\* Cons has a tail other than Nil, and on a tree that is neither Nil nor a
\* Cons, it fails with a type mismatch.
C17_BeginList ==
  probe.op = "beginList" =>
    \E n \in {Len(elements(pool, probe.e))} : \E f \in {firstFailing(probe.e)} :
      CASE probe.lit.t = "LList" /\ n = 0 ->
             probe.k = "ok" /\ probe.v = Unit /\ probe.evaluated = <<>>
        [] probe.lit.t = "LList" /\ n >= 1 ->
             IF f \in 1..(n - 1) /\ lookup(pool, globalEnv, "b") = nullptr
             THEN /\ probe.k = "PartialEvalError" /\ probe.v = "unbound symbol"
                  /\ probe.evaluated = writtenBefore(probe.e, f)
             ELSE /\ probe.k = "ok" /\ probe.v = elements(pool, probe.e)[n]
                  /\ probe.evaluated = writtenBefore(probe.e, n - 1)
        [] OTHER -> probe.k = "PartialEvalError" /\ probe.v = "type mismatch"

\* beginList has evaluated three elements and returned the fourth.
C17_Witness ==
  /\ probe.op = "beginList"
  /\ probe.k = "ok"
  /\ Len(probe.evaluated) = 3
  /\ probe.v = elements(pool, probe.e)[4]

---------------------------------------------------------------------------
(* Statements that assign: set on local and on global bindings, on names   *)
(* that are not bound, and in a global environment a program has replaced. *)

\* (let ((name value)) body)
Let1(name, value, body) == S(<< Y("let"), S(<< S(<< Y(name), value >>) >>), body >>)

SetPrograms ==
  [\* (let ((x 1)) (let ((f (lambda () x))) (let ((x 2)) (begin (set x 3) (list x (f))))))
   setInner |->
     Let1("x", N(1),
          Let1("f", Lam(<< >>, Y("x")),
               Let1("x", N(2),
                    S(<< Y("begin"), S(<< Y("set"), Y("x"), N(3) >>),
                         S(<< Y("list"), Y("x"), S(<< Y("f") >>) >>) >>)))),
   \* (let ((x 1)) (let ((f (lambda () x))) (begin (set x 5) (f))))
   setShared |->
     Let1("x", N(1),
          Let1("f", Lam(<< >>, Y("x")),
               S(<< Y("begin"), S(<< Y("set"), Y("x"), N(5) >>), S(<< Y("f") >>) >>))),
   \* (let ((x 1)) (begin (set x 2) (env)))
   setEnv |->
     Let1("x", N(1), S(<< Y("begin"), S(<< Y("set"), Y("x"), N(2) >>), S(<< Y("env") >>) >>)),
   \* (set foo 1)
   setFoo |-> S(<< Y("set"), Y("foo"), N(1) >>),
   \* (set add 1)
   setAdd |-> S(<< Y("set"), Y("add"), N(1) >>),
   \* (define x 1)
   defineX |-> S(<< Y("define"), Y("x"), N(1) >>),
   \* (set x 2)
   setX |-> S(<< Y("set"), Y("x"), N(2) >>),
   \* (set_global_env (list (list `y)))
   entryOfOne |->
     S(<< Y("set_global_env"), S(<< Y("list"), S(<< Y("list"), LQuote(Y("y")) >>) >>) >>)]

NextSet == \E p \in DOMAIN SetPrograms : EvalParsedStatement(p, SetPrograms[p])

SpecSet == Init /\ [][NextSet]_vars

\* env has a binding for the name s: an entry that is a list headed by the
\* symbol.
hasBinding(env, s) ==
  \E k \in DOMAIN elements(pool, env) :
    /\ holds("Cons", elements(pool, env)[k])
    /\ getCons(pool, elements(pool, env)[k]).head = Symbol(s)

\* C18: set writes the value into the cell of the innermost binding of the
\* symbol in env: no entry is added or removed, an outer binding of the name
\* keeps its value, and every environment and closure that shares the cell
\* reads the new value; when env has no binding for the symbol, also when the
\* symbol is the name of a primitive, the form fails with "unbound symbol" and
\* leaves the environment as it was.
\* (The global environment holds whatever the statements before have left.)
C18_SetInPlace ==
  /\ last.prog = "setInner" =>
       /\ last.k = "ok"
       /\ reify(pool, last.v, ReifyDepth) = LCons(Nat64(3), LCons(Nat64(1), Nil))
  /\ last.prog = "setShared" => Returned("setShared", Nat64(5))
  /\ last.prog = "setEnv" =>
       /\ last.k = "ok" /\ holds("Cons", last.v)
       /\ reify(pool, head(machine, last.v), ReifyDepth)
            = LCons(Symbol("x"), LCons(Nat64(2), Nil))
       /\ tail(machine, last.v) = last.env
  /\ last.prog = "setX" =>
       IF hasBinding(last.env, "x")
       THEN /\ last.k = "ok" /\ last.v = Unit /\ globalEnv = last.env
            /\ lookup(pool, globalEnv, "x") = Nat64(2)
       ELSE FailedUnbound("setX", "x")
  /\ last.prog = "setFoo" => FailedUnbound("setFoo", "foo")
  /\ last.prog = "setAdd" => FailedUnbound("setAdd", "add")
  /\ last.prog \in {"setX", "setFoo", "setAdd"} /\ last.k # "ok" => globalEnv = last.env

\* set was evaluated in a global environment that has an entry of one
\* element, and the evaluator did not return from it.
C18_Terminated == last.prog \in {"setX", "setFoo", "setAdd"} /\ last.k = "terminate"

---------------------------------------------------------------------------
(* expand on its own, applied to trees whose heads are and are not the     *)
(* names of macros, before and after a statement has defined the macros.   *)

\* Evaluator::expand(e), run to its return or to the exception it throws.
expand(m, e) ==
  LET s == CHOOSE t \in run(FuelBits,
               [m |-> m, c |-> [op |-> "call", f |-> "expand", env |-> nullptr, e |-> e],
                K |-> <<>>]) : TRUE
  IN  [m |-> s.m,
       k |-> IF ~halted(s) THEN "fuel" ELSE IF s.c.op = "return" THEN "ok" ELSE s.c.k,
       v |-> IF ~halted(s) THEN nullptr ELSE s.c.v]

\* (define_macro name (lambda formal body))
DefineMacro(name, formal, body) == S(<< Y("define_macro"), Y(name), Lam(formal, body) >>)

\* (begin (define_macro twice (lambda (x) (list x x)))
\*        (define_macro again (lambda (x) (list `twice x)))
\*        (define_macro name (lambda () `twice))
\*        (let ((k 5)) (define_macro addk (lambda (x) (add x k)))))
MacroPrograms ==
  [macros |->
     S(<< Y("begin"),
          DefineMacro("twice", << Y("x") >>, S(<< Y("list"), Y("x"), Y("x") >>)),
          DefineMacro("again", << Y("x") >>, S(<< Y("list"), LQuote(Y("twice")), Y("x") >>)),
          DefineMacro("name", << >>, LQuote(Y("twice"))),
          Let1("k", N(5),
               DefineMacro("addk", << Y("x") >>, S(<< Y("add"), Y("x"), Y("k") >>))) >>)]

\* The trees expand is applied to.
ExpandTrees ==
  << N(5), Y("twice"), S(<< >>),
     S(<< Y("twice"), N(1) >>),
     S(<< Y("twice"), S(<< Y("twice"), N(1) >>) >>),
     S(<< Y("again"), N(1) >>),
     S(<< N(1), S(<< Y("again"), S(<< Y("twice"), N(2) >>) >>) >>),
     S(<< Y("foo"), S(<< Y("twice"), N(1) >>) >>),
     S(<< S(<< Y("name") >>), N(3) >>),
     S(<< Y("addk"), N(1) >>),
     dotted(<< Y("foo") >>, N(5)),
     S(<< Y("twice"), N(1), N(2) >>),
     S(<< Y("twice") >>),
     S(<< Y("foo"), S(<< Y("twice") >>) >>) >>

\* The list of the elements xs, as reify shows it.
consList(xs) == dotted(xs, Nil)

\* Stands for a call of expand that throws.
Failing == [t |-> "EvalError"]

\* What expand returns for each of the trees once the macros are defined;
\* Failing where it fails.
Expanded ==
  << Nat64(5), Symbol("twice"), Nil,
     consList(<< Nat64(1), Nat64(1) >>),
     consList(<< consList(<< Nat64(1), Nat64(1) >>), consList(<< Nat64(1), Nat64(1) >>) >>),
     consList(<< Symbol("twice"), Nat64(1) >>),
     consList(<< Nat64(1), consList(<< Symbol("twice"),
                                       consList(<< Nat64(2), Nat64(2) >>) >>) >>),
     consList(<< Symbol("foo"), consList(<< Nat64(1), Nat64(1) >>) >>),
     consList(<< Nat64(3), Nat64(3) >>),
     Nat64(6),
     LCons(Symbol("foo"), Nat64(5)),
     Failing, Failing, Failing >>

\* The statement that defines the macros has been evaluated.
Defined == findMacro(machine, "twice") # -1

\* expand(e) for the i-th tree, once in a run; the harness keeps the tree, whether the macros
\* were defined, how the call ended and what it returned.
Expand(i) ==
  /\ probe.op = "none"
  /\ \E x \in {alloc(pool, ExpandTrees[i])} :
       \E r \in {expand([machine EXCEPT !.pool = x.pool], x.v)} :
         /\ install(r.m)
         /\ probe' = [op |-> "expand", i |-> i, e |-> x.v, defined |-> Defined, k |-> r.k,
                      v |-> IF r.k = "ok" THEN r.v ELSE nullptr,
                      msg |-> IF r.k = "ok" THEN "" ELSE r.v.msg]
  /\ UNCHANGED <<argOrder, nStatements, last, resolving>>

NextExpand ==
  \/ \E p \in DOMAIN MacroPrograms : EvalParsedStatement(p, MacroPrograms[p])
  \/ \E i \in DOMAIN ExpandTrees : Expand(i)

SpecExpand == Init /\ [][NextExpand]_vars

\* C19: expand expands once, from the inside out.  On a Cons it expands every
\* element first; when the head, expanded, is a symbol that names a macro, it
\* matches the expanded tail against the formal of the macro in the
\* environment the macro captured and returns the value of the body, which is
\* not expanded again ((again 1) yields (twice 1)); a tail that does not match
\* the formal is an EvalError, "pattern matching failed".  A tree that is no
\* Cons is returned as it is, and a list whose head names no macro is returned
\* with its elements expanded (the tree itself while no macro is defined).
C19_Expand ==
  probe.op = "expand" =>
    IF ~probe.defined THEN probe.k = "ok" /\ probe.v = probe.e
    ELSE IF Expanded[probe.i] = Failing
    THEN probe.k = "EvalError" /\ probe.msg = "pattern matching failed"
    ELSE probe.k = "ok" /\ reify(pool, probe.v, ReifyDepth) = Expanded[probe.i]

\* expand has returned (twice 1), the value of the body of again, with twice
\* defined as a macro.
C19_Witness ==
  /\ probe.op = "expand" /\ probe.defined
  /\ ExpandTrees[probe.i] = S(<< Y("again"), N(1) >>)
  /\ probe.k = "ok"
  /\ reify(pool, probe.v, ReifyDepth) = consList(<< Symbol("twice"), Nat64(1) >>)

---------------------------------------------------------------------------
(* Global definitions and the closures made before them, over sequences of *)
(* statements.                                                             *)

\* (define name value)
Define(name, value) == S(<< Y("define"), Y(name), value >>)

DefinePrograms ==
  [defF |-> Define("f", Lam(<< >>, Y("g"))),
   defG |-> Define("g", N(1)),
   \* (begin (define f (lambda () g)) (define g 1))
   defBoth |-> S(<< Y("begin"), Define("f", Lam(<< >>, Y("g"))), Define("g", N(1)) >>),
   defSelf |-> Define("h", Lam(<< >>, Y("h"))),
   \* (begin (define a (lambda () add)) (define add 5))
   defPrim |-> S(<< Y("begin"), Define("a", Lam(<< >>, Y("add"))), Define("add", N(5)) >>),
   \* (define x (begin (define y 1) 2))
   defNested |-> Define("x", S(<< Y("begin"), Define("y", N(1)), N(2) >>)),
   callF |-> S(<< Y("f") >>),
   callH |-> S(<< Y("h") >>),
   callA |-> S(<< Y("a") >>)]

NextDefine == \E p \in DOMAIN DefinePrograms : EvalParsedStatement(p, DefinePrograms[p])

SpecDefine == Init /\ [][NextDefine]_vars

\* The statements that call a closure by its global name, and the symbol that
\* is the body of the closure.
Calls == { [prog |-> "callF", f |-> "f", body |-> "g"],
           [prog |-> "callH", f |-> "h", body |-> "h"],
           [prog |-> "callA", f |-> "a", body |-> "add"] }

\* The environments that are env or a tail of it: the Cons nodes of its spine
\* and Nil.
tails(p, env) == {env, Nil} \cup {getCons(p, spine(p, env)[i]).tail : i \in DOMAIN spine(p, env)}

\* The closure is bound in the global environment, and the environment it
\* captured is what the global environment was below its own entry.
CapturedBefore ==
  \A i \in DOMAIN spine(pool, globalEnv) :
    LET node  == getCons(pool, spine(pool, globalEnv)[i])
        value == getCons(pool, getCons(pool, node.head).tail).head
    IN  holds("Closure", value) => value.env \in tails(pool, node.tail)

\* What the call of a closure returns is decided by the environment the
\* closure captured, not by the global environment of the call.
CalledInCaptured ==
  \A c \in Calls :
    last.prog = c.prog =>
      LET cl == lookup(pool, last.env, c.f)
      IN  IF cl = nullptr THEN Unbound(c.f)
          ELSE LET b == lookup(pool, cl.env, c.body)
               IN  IF b # nullptr THEN last.k = "ok" /\ last.v = b
                   ELSE IF namePrims(c.body) # -1
                   THEN last.k = "ok" /\ last.v = Prim(namePrims(c.body))
                   ELSE Unbound(c.body)

\* The defines a statement executed.
defines(st) == {k \in DOMAIN st.primCalls : st.primCalls[k].name = "define"}

\* A statement leaves every cell that existed as it was, and the global
\* environment after it is the one before it with entries in front, no more
\* than the defines it executed, and one at least when it executed a define
\* that returned.
Prepends ==
  /\ SubSeq(pool', 1, Len(pool)) = pool
  /\ globalEnv \in tails(pool', globalEnv')
  /\ Len(spine(pool', globalEnv')) - Len(spine(pool, globalEnv))
       <= Cardinality(defines(last'))
  /\ last'.k = "ok" /\ defines(last') # {} => globalEnv' # globalEnv

=============================================================================
